---- MODULE Spec2Model ----
(***************************************************************************)
(* Model of the CIEM relationship graph builder, the risk scoring engine   *)
(* and the access-path query of TechFxSolutions/aws-ciem-tool.             *)
(***************************************************************************)
EXTENDS Integers, Sequences, FiniteSets, TLC

VARIABLES
    iam_data,        \* identity discovery result handed to the analyzers
    resource_data,   \* combined resource discovery result
    hash_seed,       \* the process's string-hash order (iteration order of a set of str)
    settings,        \* the configured risk thresholds
    relationships,   \* RelationshipBuilder.relationships of the builder under test
    build_calls,     \* build_relationships calls made on that builder
    build_out,       \* what the latest call returned
    build_first,     \* what the first call on the builder returned
    changed,         \* whether the account changed after the first call
    risk_scores,     \* RiskAnalyzer.risk_scores of the analyzer under test
    analyze_calls,   \* analyze_all calls made on that analyzer
    analyze_out,     \* what the latest analyze_all call returned
    blast_out,       \* what the latest calculate_blast_radius call returned
    graph_data,      \* the stored graph_data the access-path query reads
    query,           \* the source and target of the access-path request
    queue,           \* the deque of (node id, path so far) of its search
    visited,         \* the visited set of its search
    pc,              \* where the request is: "idle", "bfs" or "done"
    path_out,        \* what get_access_path returned
    enqueued,        \* every node id put on the queue, in order
    scan_status,     \* scan.py scan_status: scan id -> status record
    scan_results,    \* scan.py scan_results: scan id -> stored result
    scan_frames,     \* the locals of each perform_scan call: pc, scan_config, all_results
    stored_first     \* scan id -> the entry as perform_scan stored it

inputs == <<iam_data, resource_data, hash_seed, settings>>
builder == <<relationships, build_calls, build_out, build_first, changed>>
analyzer == <<risk_scores, analyze_calls, analyze_out, blast_out>>
search == <<graph_data, query, queue, visited, pc, path_out, enqueued>>
scans == <<scan_status, scan_results, scan_frames, stored_first>>
vars == <<inputs, builder, analyzer, search, scans>>

(***************************************************************************)
(* Python values                                                           *)
(***************************************************************************)
\* None, as the value of an optional string field
NoneVal == "<None>"
\* truth value of an optional string
Truthy(s) == s # NoneVal /\ s # ""
\* dict.get(f, default)
Get(rec, f, default) == IF f \in DOMAIN rec THEN rec[f] ELSE default
\* the result of a call that raised
Raised == [raised |-> TRUE]
IsRaised(r) == "raised" \in DOMAIN r

\* all sequences over S of length at most n
SeqsUpTo(S, n) == UNION {[1..k -> S] : k \in 0..n}
Range(s) == {s[i] : i \in DOMAIN s}

\* index of the entry of an insertion-ordered dict (a sequence of entries, each
\* carrying its key in field kf) that has key k; 0 when absent
RECURSIVE KeyIndexFrom(_, _, _, _)
KeyIndexFrom(d, kf, k, i) ==
    IF i > Len(d) THEN 0
    ELSE IF d[i][kf] = k THEN i
    ELSE KeyIndexFrom(d, kf, k, i + 1)
KeyIndex(d, kf, k) == KeyIndexFrom(d, kf, k, 1)
HasKey(d, kf, k) == KeyIndex(d, kf, k) # 0
\* d[k] = v : a new key is appended, an existing key keeps its position
DictSet(d, kf, v) ==
    LET i == KeyIndex(d, kf, v[kf])
    IN  IF i = 0 THEN Append(d, v) ELSE [d EXCEPT ![i] = v]

\* list(a set of str): the elements in the order the process's hashing gives
RECURSIVE ListOfSetFrom(_, _, _)
ListOfSetFrom(S, order, i) ==
    IF i > Len(order) THEN <<>>
    ELSE IF order[i] \in S THEN <<order[i]>> \o ListOfSetFrom(S, order, i + 1)
    ELSE ListOfSetFrom(S, order, i + 1)
ListOfSet(S, order) == ListOfSetFrom(S, order, 1)

\* whether the elements of an instance's security_groups list are
\* {group_id, group_name} records (unhashable dicts) with at least one element
HasDictRefs(instance) ==
    /\ Get(instance, "sg_shape", "ids") = "records"
    /\ Len(Get(instance, "security_groups", <<>>)) > 0

(***************************************************************************)
(* RelationshipBuilder                                                     *)
(***************************************************************************)
normalize_node_id(resource_type, resource_id) ==
    LET prefix ==
          CASE resource_type = "iam_role" -> "role"
            [] resource_type = "iam_user" -> "user"
            [] resource_type = "ec2_instance" -> "ec2"
            [] resource_type = "lambda_function" -> "lambda"
            [] resource_type = "s3_bucket" -> "s3"
            [] resource_type = "rds_instance" -> "rds"
            [] resource_type = "security_group" -> "sg"
            [] OTHER -> resource_type
    IN  prefix \o "-" \o resource_id

Relationship(src, st, tgt, tt, rt) ==
    [source |-> src, source_type |-> st, target |-> tgt, target_type |-> tt,
     relationship_type |-> rt]

\* for role in iam_data["roles"]: role_map[role_name] = {...}
\* a record without "arn" makes role["arn"] raise KeyError
RECURSIVE InitRoles(_, _, _)
InitRoles(roles, i, st) ==
    IF i > Len(roles) \/ ~st.ok THEN st
    ELSE IF "arn" \notin DOMAIN roles[i] THEN [st EXCEPT !.ok = FALSE]
    ELSE InitRoles(roles, i + 1,
           [st EXCEPT !.role_map = DictSet(@, "role_name",
              [role_name |-> roles[i].role_name,
               role_arn |-> roles[i].arn,
               role_type |-> Get(roles[i], "role_type", NoneVal),
               is_admin |-> Get(roles[i], "is_admin", FALSE),
               attached_policies |-> Get(roles[i], "attached_policies", <<>>),
               resources |-> <<>>,
               security_groups |-> {}])])

\* for instance in resource_data["ec2_instances"]: map it to its role
RECURSIVE MapEc2ToRoles(_, _, _)
MapEc2ToRoles(instances, i, st) ==
    IF i > Len(instances) \/ ~st.ok THEN st
    ELSE
      LET instance == instances[i]
          iam_profile == Get(instance, "iam_instance_profile", NoneVal)
          k == KeyIndex(st.role_map, "role_name", iam_profile)
          resource_info ==
            [resource_type |-> "ec2_instance",
             resource_id |-> instance.instance_id,
             resource_name |-> instance.name,
             is_public |-> Get(instance, "is_public", FALSE),
             security_groups |-> Get(instance, "security_groups", <<>>)]
      IN  IF ~(Truthy(iam_profile) /\ k # 0)
          THEN MapEc2ToRoles(instances, i + 1, st)
          ELSE IF HasDictRefs(instance)
          THEN [st EXCEPT !.ok = FALSE]      \* set.update: unhashable type 'dict'
          ELSE MapEc2ToRoles(instances, i + 1,
                 [st EXCEPT
                    !.role_map[k].resources = Append(@, resource_info),
                    !.role_map[k].security_groups =
                        @ \cup Range(Get(instance, "security_groups", <<>>)),
                    !.relationships = Append(@,
                        Relationship(iam_profile, "iam_role", instance.instance_id,
                                     "ec2_instance", "assumes"))])

\* the leading segment of a role reference
FirstSegment(role_arn) == role_arn[1]

\* role_arn.split("/")[-1] if "/" in role_arn else role_arn, a role reference
\* being the sequence of its "/"-separated segments
LastSegment(role_arn) == role_arn[Len(role_arn)]

\* for function in resource_data["lambda_functions"]: map it to its role
RECURSIVE MapLambdaToRoles(_, _, _)
MapLambdaToRoles(functions, i, st) ==
    IF i > Len(functions) THEN st
    ELSE
      LET function == functions[i]
          role_arn == Get(function, "role", <<>>)
          role_name == LastSegment(role_arn)
          k == KeyIndex(st.role_map, "role_name", role_name)
          resource_info ==
            [resource_type |-> "lambda_function",
             resource_id |-> function.function_name,
             resource_name |-> function.function_name,
             runtime |-> Get(function, "runtime", NoneVal),
             security_groups |-> Get(function, "security_groups", <<>>)]
      IN  IF role_arn = <<>> \/ role_arn = <<"">> \/ k = 0
          THEN MapLambdaToRoles(functions, i + 1, st)
          ELSE MapLambdaToRoles(functions, i + 1,
                 [st EXCEPT
                    !.role_map[k].resources = Append(@, resource_info),
                    !.role_map[k].security_groups =
                        @ \cup Range(Get(function, "security_groups", <<>>)),
                    !.relationships = Append(@,
                        Relationship(role_name, "iam_role", function.function_name,
                                     "lambda_function", "assumes"))])

\* role_data["security_groups"] = list(role_data["security_groups"])
SetsToLists(role_map, order) ==
    [i \in DOMAIN role_map |->
        [role_map[i] EXCEPT !.security_groups = ListOfSet(@, order)]]

\* [ok, role_map, relationships]: the role map and self.relationships after
\* _build_role_resource_map, ok = FALSE when it raised
build_role_resource_map(rels, iam, res, order) ==
    LET s0 == [ok |-> TRUE, role_map |-> <<>>, relationships |-> rels]
        s1 == InitRoles(Get(iam, "roles", <<>>), 1, s0)
        s2 == MapEc2ToRoles(Get(res, "ec2_instances", <<>>), 1, s1)
        s3 == IF s2.ok
              THEN MapLambdaToRoles(Get(res, "lambda_functions", <<>>), 1, s2)
              ELSE s2
    IN  IF s3.ok THEN [s3 EXCEPT !.role_map = SetsToLists(@, order)] ELSE s3

\* a security-group entry synthesized for an id seen only by reference
SynthesizedGroup(sg_id) ==
    [group_id |-> sg_id, group_name |-> sg_id, vpc_id |-> NoneVal,
     has_internet_access |-> FALSE, allows_all_traffic |-> FALSE,
     resources |-> <<>>]

\* for sg in resource_data["security_groups"]: sg_map[sg_id] = {...}
RECURSIVE InitGroups(_, _, _)
InitGroups(groups, i, sg_map) ==
    IF i > Len(groups) THEN sg_map
    ELSE InitGroups(groups, i + 1,
           DictSet(sg_map, "group_id",
              [group_id |-> groups[i].group_id,
               group_name |-> groups[i].group_name,
               vpc_id |-> Get(groups[i], "vpc_id", NoneVal),
               has_internet_access |-> Get(groups[i], "has_internet_access", FALSE),
               allows_all_traffic |-> Get(groups[i], "allows_all_traffic", FALSE),
               resources |-> <<>>]))

\* the body of "for sg_id in <resource>.get('security_groups', [])": create the
\* entry if missing, attach the resource, record the protected_by relationship
RECURSIVE AttachGroups(_, _, _, _, _, _)
AttachGroups(sg_ids, j, attached, source, source_type, st) ==
    IF j > Len(sg_ids) THEN st
    ELSE
      LET sg_id == sg_ids[j]
          m1 == IF HasKey(st.sg_map, "group_id", sg_id) THEN st.sg_map
                ELSE Append(st.sg_map, SynthesizedGroup(sg_id))
          k == KeyIndex(m1, "group_id", sg_id)
      IN  AttachGroups(sg_ids, j + 1, attached, source, source_type,
            [st EXCEPT
               !.sg_map = [m1 EXCEPT ![k].resources = Append(@, attached)],
               !.relationships = Append(@,
                   Relationship(source, source_type, sg_id, "security_group",
                                "protected_by"))])

RECURSIVE MapEc2ToGroups(_, _, _)
MapEc2ToGroups(instances, i, st) ==
    IF i > Len(instances) \/ ~st.ok THEN st
    ELSE
      LET instance == instances[i]
          attached ==
            [resource_type |-> "ec2_instance",
             resource_id |-> instance.instance_id,
             resource_name |-> instance.name,
             is_public |-> Get(instance, "is_public", FALSE),
             iam_role |-> Get(instance, "iam_instance_profile", NoneVal)]
      IN  IF HasDictRefs(instance)
          THEN [st EXCEPT !.ok = FALSE]   \* sg_id not in sg_map: unhashable type 'dict'
          ELSE MapEc2ToGroups(instances, i + 1,
                 AttachGroups(Get(instance, "security_groups", <<>>), 1, attached,
                              instance.instance_id, "ec2_instance", st))

RECURSIVE MapLambdaToGroups(_, _, _)
MapLambdaToGroups(functions, i, st) ==
    IF i > Len(functions) THEN st
    ELSE
      LET function == functions[i]
          attached ==
            [resource_type |-> "lambda_function",
             resource_id |-> function.function_name,
             resource_name |-> function.function_name,
             iam_role |-> Get(function, "role", <<>>)]
      IN  MapLambdaToGroups(functions, i + 1,
            AttachGroups(Get(function, "security_groups", <<>>), 1, attached,
                         function.function_name, "lambda_function", st))

RECURSIVE MapRdsToGroups(_, _, _)
MapRdsToGroups(instances, i, st) ==
    IF i > Len(instances) THEN st
    ELSE
      LET instance == instances[i]
          attached ==
            [resource_type |-> "rds_instance",
             resource_id |-> instance.db_instance_identifier,
             resource_name |-> instance.db_instance_identifier,
             publicly_accessible |-> Get(instance, "publicly_accessible", FALSE)]
      IN  MapRdsToGroups(instances, i + 1,
            AttachGroups(Get(instance, "security_groups", <<>>), 1, attached,
                         instance.db_instance_identifier, "rds_instance", st))

\* [ok, sg_map, relationships]: the security-group map and self.relationships
\* after _build_security_group_map, ok = FALSE when it raised
build_security_group_map(rels, res) ==
    LET s0 == [ok |-> TRUE,
               sg_map |-> InitGroups(Get(res, "security_groups", <<>>), 1, <<>>),
               relationships |-> rels]
        s1 == MapEc2ToGroups(Get(res, "ec2_instances", <<>>), 1, s0)
    IN  IF ~s1.ok THEN s1
        ELSE MapRdsToGroups(Get(res, "rds_instances", <<>>), 1,
               MapLambdaToGroups(Get(res, "lambda_functions", <<>>), 1, s1))

\* the number of elements of a list that satisfy a test
CountIf(s, Test(_)) == Len(SelectSeq(s, Test))

MinUnclamped(a, b) == b
Min(a, b) == IF a <= b THEN a ELSE b

\* a risk that adds 15 for every group the role refers to
RoleRiskAnyGroup(role_data, sg_mappings) ==
    LET IsPublic(resource) == Get(resource, "is_public", FALSE)
    IN  Min(100, (IF Get(role_data, "is_admin", FALSE) THEN 50 ELSE 0)
                 + 20 * CountIf(role_data.resources, IsPublic)
                 + 15 * Len(role_data.security_groups))

calculate_role_risk(role_data, sg_mappings) ==
    LET IsPublic(resource) == Get(resource, "is_public", FALSE)
        HasInternet(sg_id) ==
            LET k == KeyIndex(sg_mappings, "group_id", sg_id)
            IN  k # 0 /\ Get(sg_mappings[k], "has_internet_access", FALSE)
        risk_score ==
            (IF Get(role_data, "is_admin", FALSE) THEN 50 ELSE 0)
            + 20 * CountIf(role_data.resources, IsPublic)
            + 15 * CountIf(role_data.security_groups, HasInternet)
    IN  Min(100, risk_score)

\* list.sort(key=risk_level, reverse=True): stable, equal keys keep their order
RECURSIVE InsertByRisk(_, _)
InsertByRisk(sorted, row) ==
    IF sorted = <<>> THEN <<row>>
    ELSE IF Head(sorted).risk_level >= row.risk_level
    THEN <<Head(sorted)>> \o InsertByRisk(Tail(sorted), row)
    ELSE <<row>> \o sorted
RECURSIVE SortByRisk(_, _)
SortByRisk(rows, i) ==
    IF i = 0 THEN <<>> ELSE InsertByRisk(SortByRisk(rows, i - 1), rows[i])

\* resources grouped by type, types in order of first appearance
RECURSIVE GroupByType(_, _, _)
GroupByType(resources, i, groups) ==
    IF i > Len(resources) THEN groups
    ELSE
      LET t == resources[i].resource_type
          k == KeyIndex(groups, "resource_type", t)
      IN  GroupByType(resources, i + 1,
            IF k = 0
            THEN Append(groups, [resource_type |-> t, items |-> <<resources[i]>>])
            ELSE [groups EXCEPT ![k].items = Append(@, resources[i])])

RoleView(role_data, sg_mappings) ==
    LET Known(sg_id) == HasKey(sg_mappings, "group_id", sg_id)
        known == SelectSeq(role_data.security_groups, Known)
    IN  [role_name |-> role_data.role_name,
         role_arn |-> role_data.role_arn,
         role_type |-> role_data.role_type,
         is_admin |-> role_data.is_admin,
         resource_count |-> Len(role_data.resources),
         security_group_count |-> Len(role_data.security_groups),
         resources_by_type |-> GroupByType(role_data.resources, 1, <<>>),
         security_groups |->
            [j \in DOMAIN known |->
               LET sg_data == sg_mappings[KeyIndex(sg_mappings, "group_id", known[j])]
               IN  [group_id |-> known[j],
                    group_name |-> sg_data.group_name,
                    has_internet_access |-> sg_data.has_internet_access,
                    resource_count |-> Len(sg_data.resources)]],
         risk_level |-> calculate_role_risk(role_data, sg_mappings)]

\* a test that lets every role into the view
OwnsAnything(role_data) == TRUE
\* "if not role_data["resources"]: continue" skips the others
OwnsResources(role_data) == role_data.resources # <<>>

build_consolidated_view(role_mappings, sg_mappings) ==
    LET with == SelectSeq(role_mappings, OwnsResources)
        rows == [i \in DOMAIN with |-> RoleView(with[i], sg_mappings)]
    IN  [iam_roles |-> SortByRisk(rows, Len(rows)),
         orphaned_resources |-> <<>>]

\* AddNode without the membership test
AddNodeUnchecked(nodes, node) == Append(nodes, node)

\* "if node_id not in node_ids: nodes.append(...); node_ids.add(node_id)"
AddNode(nodes, node) ==
    IF node.id \in {nodes[i].id : i \in DOMAIN nodes} THEN nodes
    ELSE Append(nodes, node)

RECURSIVE AddNodes(_, _, _)
AddNodes(nodes, new, i) ==
    IF i > Len(new) THEN nodes
    ELSE AddNodes(AddNode(nodes, new[i]), new, i + 1)

\* BothNodesExist without the test
BothNodesExistUnchecked(source_id, target_id, node_ids) == TRUE

\* "if source_id in node_ids and target_id in node_ids"
BothNodesExist(source_id, target_id, node_ids) ==
    source_id \in node_ids /\ target_id \in node_ids

\* GroupNodeExists without the test
GroupNodeExistsUnchecked(source_id, node_ids) == TRUE

\* "if source_id in node_ids" of the edges to the Internet node
GroupNodeExists(source_id, node_ids) == source_id \in node_ids

build_graph_data(rels, role_mappings, sg_mappings, res) ==
    LET HasResources(entry) == entry.resources # <<>>
        roles == SelectSeq(role_mappings, HasResources)
        groups == SelectSeq(sg_mappings, HasResources)
        ec2 == Get(res, "ec2_instances", <<>>)
        functions == Get(res, "lambda_functions", <<>>)
        buckets == Get(res, "s3_buckets", <<>>)
        rds == Get(res, "rds_instances", <<>>)
        role_nodes ==
          [i \in DOMAIN roles |->
             [id |-> normalize_node_id("iam_role", roles[i].role_name),
              label |-> roles[i].role_name, type |-> "iam_role",
              group |-> "identity",
              is_admin |-> Get(roles[i], "is_admin", FALSE),
              resource_count |-> Len(roles[i].resources)]]
        group_nodes ==
          [i \in DOMAIN groups |->
             [id |-> normalize_node_id("security_group", groups[i].group_id),
              label |-> groups[i].group_name, type |-> "security_group",
              group |-> "network",
              has_internet_access |-> Get(groups[i], "has_internet_access", FALSE),
              resource_count |-> Len(groups[i].resources)]]
        ec2_nodes ==
          [i \in DOMAIN ec2 |->
             [id |-> normalize_node_id("ec2_instance", ec2[i].instance_id),
              label |-> ec2[i].name, type |-> "ec2_instance", group |-> "compute",
              is_public |-> Get(ec2[i], "is_public", FALSE),
              state |-> Get(ec2[i], "state", NoneVal)]]
        lambda_nodes ==
          [i \in DOMAIN functions |->
             [id |-> normalize_node_id("lambda_function", functions[i].function_name),
              label |-> functions[i].function_name, type |-> "lambda_function",
              group |-> "compute",
              runtime |-> Get(functions[i], "runtime", NoneVal)]]
        s3_nodes ==
          [i \in DOMAIN buckets |->
             [id |-> normalize_node_id("s3_bucket", buckets[i].bucket_name),
              label |-> buckets[i].bucket_name, type |-> "s3_bucket",
              group |-> "storage",
              is_public |-> Get(buckets[i], "is_public", FALSE)]]
        rds_nodes ==
          [i \in DOMAIN rds |->
             [id |-> normalize_node_id("rds_instance", rds[i].db_instance_identifier),
              label |-> rds[i].db_instance_identifier, type |-> "rds_instance",
              group |-> "database",
              publicly_accessible |-> Get(rds[i], "publicly_accessible", FALSE)]]
        internet_node_id == "internet"
        nodes ==
          Append(AddNodes(<<>>,
                    role_nodes \o group_nodes \o ec2_nodes \o lambda_nodes
                      \o s3_nodes \o rds_nodes, 1),
                 [id |-> internet_node_id, label |-> "Internet (0.0.0.0/0)",
                  type |-> "internet", group |-> "external"])
        node_ids == {nodes[i].id : i \in DOMAIN nodes}
        RelEdge(rel) ==
          [source |-> normalize_node_id(rel.source_type, rel.source),
           target |-> normalize_node_id(rel.target_type, rel.target),
           type |-> rel.relationship_type]
        Resolved(rel) ==
          BothNodesExist(RelEdge(rel).source, RelEdge(rel).target, node_ids)
        kept == SelectSeq(rels, Resolved)
        Exposed(entry) ==
          /\ Get(entry, "has_internet_access", FALSE)
          /\ GroupNodeExists(normalize_node_id("security_group", entry.group_id),
                             node_ids)
        exposed == SelectSeq(sg_mappings, Exposed)
        edges ==
          [i \in DOMAIN kept |-> RelEdge(kept[i])]
          \o [i \in DOMAIN exposed |->
                [source |-> normalize_node_id("security_group", exposed[i].group_id),
                 target |-> internet_node_id,
                 type |-> "allows_traffic_from"]]
        OfType(t) == Cardinality({i \in DOMAIN nodes : nodes[i].type = t})
    IN  [nodes |-> nodes,
         edges |-> edges,
         stats |->
           [total_nodes |-> Len(nodes),
            total_edges |-> Len(edges),
            node_types |->
              [iam_roles |-> OfType("iam_role"),
               security_groups |-> OfType("security_group"),
               ec2_instances |-> OfType("ec2_instance"),
               lambda_functions |-> OfType("lambda_function"),
               s3_buckets |-> OfType("s3_bucket"),
               rds_instances |-> OfType("rds_instance")]]]

\* iam_data is None when IAM discovery was skipped
NoneData == [is_none |-> TRUE]
IsNone(d) == "is_none" \in DOMAIN d

\* [out, relationships]: what build_relationships returns (Raised when it raises)
\* and self.relationships afterwards, for a builder whose self.relationships was
\* rels and a process whose set order is `order`
build_relationships(rels, iam, res, order) ==
    IF IsNone(iam) THEN [out |-> Raised, relationships |-> rels]
    ELSE
      LET r == build_role_resource_map(rels, iam, res, order)
          g == build_security_group_map(r.relationships, res)
          HasResources(entry) == entry.resources # <<>>
          HasInternet(entry) == Get(entry, "has_internet_access", FALSE)
      IN  IF ~r.ok THEN [out |-> Raised, relationships |-> r.relationships]
          ELSE IF ~g.ok THEN [out |-> Raised, relationships |-> g.relationships]
          ELSE
            [out |->
               [role_mappings |-> r.role_map,
                security_group_mappings |-> g.sg_map,
                consolidated_view |-> build_consolidated_view(r.role_map, g.sg_map),
                graph_data |->
                   build_graph_data(g.relationships, r.role_map, g.sg_map, res),
                summary |->
                  [total_roles |-> Len(r.role_map),
                   total_security_groups |-> Len(g.sg_map),
                   total_relationships |-> Len(g.relationships),
                   roles_with_resources |-> CountIf(r.role_map, HasResources),
                   security_groups_with_internet |-> CountIf(g.sg_map, HasInternet)]],
             relationships |-> g.relationships]

(***************************************************************************)
(* RiskAnalyzer                                                            *)
(***************************************************************************)
Finding(id, type, severity, score, rtype, rid) ==
    [risk_id |-> id, risk_type |-> type, severity |-> severity,
     risk_score |-> score, resource_type |-> rtype, resource_id |-> rid]

\* one finding per element of a list that satisfies a test, in list order
FindingsFor(list, Test(_), Make(_)) ==
    LET hit == SelectSeq(list, Test)
    IN  [i \in DOMAIN hit |-> Make(hit[i])]

analyze_identity_risks(iam) ==
    LET users == Get(iam, "users", <<>>)
        roles == Get(iam, "roles", <<>>)
        NoMfa(user) == ~Get(user, "mfa_enabled", FALSE)
        Inactive(user) == Get(user, "is_inactive", FALSE)
        Admin(role) == Get(role, "is_admin", FALSE)
        IsActive(key) == key.status = "Active"
        MultiKey(user) == CountIf(Get(user, "access_keys", <<>>), IsActive) > 1
        MfaRisk(user) ==
            Finding("IAM-USER-MFA-" \o user.username, "identity", "high", 75,
                    "iam_user", user.username)
        InactiveRisk(user) ==
            Finding("IAM-USER-INACTIVE-" \o user.username, "identity", "medium", 60,
                    "iam_user", user.username)
        AdminRisk(role) ==
            Finding("IAM-ROLE-ADMIN-" \o role.role_name, "identity", "high", 80,
                    "iam_role", role.role_name)
        MultiKeyRisk(user) ==
            Finding("IAM-USER-MULTIKEY-" \o user.username, "identity", "medium", 55,
                    "iam_user", user.username)
    IN  FindingsFor(users, NoMfa, MfaRisk)
        \o FindingsFor(users, Inactive, InactiveRisk)
        \o FindingsFor(roles, Admin, AdminRisk)
        \o FindingsFor(users, MultiKey, MultiKeyRisk)

\* "has_risky_sg = True" for every element of the instance's security_groups
HasRiskySg(instance) == Len(Get(instance, "security_groups", <<>>)) > 0

\* [sg['group_id'] for sg in ...] raises TypeError on a list of plain ids
Ec2RiskRaises(instance) ==
    /\ Get(instance, "is_public", FALSE)
    /\ Get(instance, "sg_shape", "ids") = "ids"
    /\ Len(Get(instance, "security_groups", <<>>)) > 0

\* [ok, risks]
analyze_resource_risks(res) ==
    LET ec2 == Get(res, "ec2_instances", <<>>)
        buckets == Get(res, "s3_buckets", <<>>)
        rds == Get(res, "rds_instances", <<>>)
        Public(r) == Get(r, "is_public", FALSE)
        Ec2Risk(instance) ==
            Finding("EC2-PUBLIC-" \o instance.instance_id, "resource",
                    IF HasRiskySg(instance) THEN "critical" ELSE "high",
                    IF HasRiskySg(instance) THEN 90 ELSE 70,
                    "ec2_instance", instance.instance_id)
        S3Public(bucket) ==
            Finding("S3-PUBLIC-" \o bucket.bucket_name, "resource", "critical", 95,
                    "s3_bucket", bucket.bucket_name)
        Unencrypted(bucket) == ~Get(bucket, "encryption_enabled", FALSE)
        S3Unencrypted(bucket) ==
            Finding("S3-UNENCRYPTED-" \o bucket.bucket_name, "resource", "high", 75,
                    "s3_bucket", bucket.bucket_name)
        RdsIsPublic(instance) == Get(instance, "publicly_accessible", FALSE)
        RdsPublic(instance) ==
            Finding("RDS-PUBLIC-" \o instance.db_instance_identifier, "resource",
                    "critical", 90, "rds_instance", instance.db_instance_identifier)
        RdsPlain(instance) == ~Get(instance, "encrypted", FALSE)
        RdsUnencrypted(instance) ==
            Finding("RDS-UNENCRYPTED-" \o instance.db_instance_identifier, "resource",
                    "high", 75, "rds_instance", instance.db_instance_identifier)
    IN  IF \E i \in DOMAIN ec2 : Ec2RiskRaises(ec2[i])
        THEN [ok |-> FALSE, risks |-> <<>>]
        ELSE [ok |-> TRUE,
              risks |->
                FindingsFor(ec2, Public, Ec2Risk)
                \o FindingsFor(buckets, Public, S3Public)
                \o FindingsFor(buckets, Unencrypted, S3Unencrypted)
                \o FindingsFor(rds, RdsIsPublic, RdsPublic)
                \o FindingsFor(rds, RdsPlain, RdsUnencrypted)]

critical_ports == {22, 3389, 1433, 3306, 5432, 27017}

analyze_network_risks(res) ==
    LET groups == Get(res, "security_groups", <<>>)
        Exposed(sg) == Get(sg, "has_internet_access", FALSE)
        Sensitive(sg) ==
            \E i \in DOMAIN Get(sg, "risky_rules", <<>>) :
                Get(sg.risky_rules[i], "from_port", -1) \in critical_ports
        GroupRisk(sg) ==
            Finding("SG-INTERNET-" \o sg.group_id, "network",
                    IF Sensitive(sg) THEN "critical" ELSE "high",
                    IF Sensitive(sg) THEN 95 ELSE 85,
                    "security_group", sg.group_id)
    IN  FindingsFor(groups, Exposed, GroupRisk)

\* the CIS checks are placeholders: no finding with the flag on or off
analyze_compliance_risks(iam, res) == <<>>

\* list.sort(key=risk_score, reverse=True): stable
RECURSIVE InsertByScore(_, _)
InsertByScore(sorted, risk) ==
    IF sorted = <<>> THEN <<risk>>
    ELSE IF Get(Head(sorted), "risk_score", 0) >= Get(risk, "risk_score", 0)
    THEN <<Head(sorted)>> \o InsertByScore(Tail(sorted), risk)
    ELSE <<risk>> \o sorted
RECURSIVE SortByScore(_, _)
SortByScore(risks, i) ==
    IF i = 0 THEN <<>> ELSE InsertByScore(SortByScore(risks, i - 1), risks[i])

\* the bucket analyze_all files a score under, for the configured thresholds
Bucket(score, thresholds) ==
    IF score >= thresholds.risk_critical_threshold THEN "critical"
    ELSE IF score >= thresholds.risk_high_threshold THEN "high"
    ELSE IF score >= thresholds.risk_medium_threshold THEN "medium"
    ELSE "low"

\* "self.risk_scores[bucket].append(risk)" for every risk, in sorted order
RECURSIVE Categorize(_, _, _, _)
Categorize(all_risks, i, scores, thresholds) ==
    IF i > Len(all_risks) THEN scores
    ELSE Categorize(all_risks, i + 1,
           [scores EXCEPT
              ![Bucket(Get(all_risks[i], "risk_score", 0), thresholds)] =
                 Append(@, all_risks[i])],
           thresholds)

EmptyScores == [critical |-> <<>>, high |-> <<>>, medium |-> <<>>, low |-> <<>>]

\* all_risks[:10]
TopCount == 10
\* a slice that keeps the whole list
WholeList(s, n) == s
FirstN(s, n) == SubSeq(s, 1, Min(n, Len(s)))

\* [out, risk_scores]: what analyze_all returns (Raised when it raises) and
\* self.risk_scores afterwards, for an analyzer whose self.risk_scores was scores
analyze_all(scores, iam, res, thresholds) ==
    LET resource == analyze_resource_risks(res)
    IN  IF IsNone(iam) \/ ~resource.ok
        THEN [out |-> Raised, risk_scores |-> scores]
        ELSE
          LET risks ==
                [identity_risks |-> analyze_identity_risks(iam),
                 resource_risks |-> resource.risks,
                 network_risks |-> analyze_network_risks(res),
                 compliance_risks |-> analyze_compliance_risks(iam, res)]
              merged == risks.identity_risks \o risks.resource_risks
                          \o risks.network_risks \o risks.compliance_risks
              all_risks == SortByScore(merged, Len(merged))
              filed == Categorize(all_risks, 1, scores, thresholds)
          IN  [out |->
                 [risks |-> risks,
                  risk_summary |->
                    [total_risks |-> Len(all_risks),
                     critical |-> Len(filed.critical),
                     high |-> Len(filed.high),
                     medium |-> Len(filed.medium),
                     low |-> Len(filed.low)],
                  top_risks |-> FirstN(all_risks, TopCount)],
               risk_scores |-> filed]

\* [out]: what calculate_blast_radius returns (Raised when it raises)
\* a comparison that takes every identity for the one asked for
ArnMatchesAny(identity, identity_arn) == TRUE
\* role.get("arn") == identity_arn, and the same for a user
ArnMatches(identity, identity_arn) == Get(identity, "arn", NoneVal) = identity_arn

calculate_blast_radius(identity_arn, iam, res) ==
    IF IsNone(iam) THEN Raised
    ELSE
      LET roles == Get(iam, "roles", <<>>)
          users == Get(iam, "users", <<>>)
          IsIt(identity) == ArnMatches(identity, identity_arn)
          role_hits == SelectSeq(roles, IsIt)
          user_hits == SelectSeq(users, IsIt)
          identity_type ==
            IF role_hits # <<>> THEN "role"
            ELSE IF user_hits # <<>> THEN "user" ELSE "none"
          identity == IF identity_type = "role" THEN Head(role_hits)
                      ELSE Head(user_hits)
          role_name == Get(identity, "role_name", NoneVal)
          UsesRole(instance) ==
            Get(instance, "iam_instance_profile", NoneVal) = role_name
          RunsAs(function) == Get(function, "role", <<>>) = <<role_name>>
          ec2 == SelectSeq(Get(res, "ec2_instances", <<>>), UsesRole)
          functions == SelectSeq(Get(res, "lambda_functions", <<>>), RunsAs)
          affected ==
            IF identity_type # "role" THEN <<>>
            ELSE [i \in DOMAIN ec2 |->
                    [resource_type |-> "ec2_instance",
                     resource_id |-> ec2[i].instance_id,
                     resource_name |-> ec2[i].name,
                     is_public |-> Get(ec2[i], "is_public", FALSE)]]
                 \o [i \in DOMAIN functions |->
                       [resource_type |-> "lambda_function",
                        resource_id |-> functions[i].function_name,
                        is_in_vpc |-> Get(functions[i], "is_in_vpc", FALSE)]]
          permissions == Get(identity, "attached_policies", <<>>)
          IsPublic(r) == Get(r, "is_public", FALSE)
      IN  IF identity_type = "none"
          THEN [identity_arn |-> identity_arn, affected_resources |-> <<>>,
                permissions |-> <<>>, risk_score |-> 0]
          ELSE [identity_arn |-> identity_arn,
                affected_resources |-> affected,
                permissions |-> permissions,
                risk_score |->
                  Min(100, Len(affected) * 10 + Len(permissions) * 5
                           + CountIf(affected, IsPublic) * 20)]

(***************************************************************************)
(* get_access_path                                                         *)
(***************************************************************************)
\* adjacency.get(current, []): the edges leaving current, in edge-list order
NeighborsUndirected(edges, current) ==
    LET Touches(edge) == edge.source = current \/ edge.target = current
        touching == SelectSeq(edges, Touches)
    IN  [i \in DOMAIN touching |->
           [target |-> IF touching[i].source = current THEN touching[i].target
                       ELSE touching[i].source,
            type |-> touching[i].type]]
Neighbors(edges, current) ==
    LET Leaves(edge) == edge.source = current
        leaving == SelectSeq(edges, Leaves)
    IN  [i \in DOMAIN leaving |-> [target |-> leaving[i].target, type |-> leaving[i].type]]

\* visited.add(neighbor_id)
MarkVisitedSkipped(seen, neighbor_id) == seen
MarkVisited(seen, neighbor_id) == seen \cup {neighbor_id}

\* "for neighbor in adjacency.get(current, [])": st = [queue, visited, enqueued]
RECURSIVE Explore(_, _, _, _)
Explore(neighbors, i, walked, st) ==
    IF i > Len(neighbors) THEN st
    ELSE LET neighbor_id == neighbors[i].target
         IN  Explore(neighbors, i + 1, walked,
               IF neighbor_id \in st.visited THEN st
               ELSE [queue |-> Append(st.queue,
                                      [node |-> neighbor_id,
                                       path |-> Append(walked, neighbor_id)]),
                     visited |-> MarkVisited(st.visited, neighbor_id),
                     enqueued |-> Append(st.enqueued, neighbor_id)])

\* next((e["type"] for e in edges if ...), "connected_to")
EdgeTypeLast(edges, node_id, next_node) ==
    LET Joins(edge) == edge.source = node_id /\ edge.target = next_node
        joining == SelectSeq(edges, Joins)
    IN  IF joining = <<>> THEN "connected_to" ELSE joining[Len(joining)].type
EdgeType(edges, node_id, next_node) ==
    LET Joins(edge) == edge.source = node_id /\ edge.target = next_node
        joining == SelectSeq(edges, Joins)
    IN  IF joining = <<>> THEN "connected_to" ELSE Head(joining).type

\* nodes.get(node_id, {"id": node_id, "label": node_id}); a node dict without the
\* key edge_to_next carries NoneVal there
NodeInfo(nodes, node_id) ==
    LET k == KeyIndex(nodes, "id", node_id)
    IN  IF k # 0 THEN nodes[k]
        ELSE [id |-> node_id, label |-> node_id, edge_to_next |-> NoneVal]

\* the node dicts after path_details[-1]["edge_to_next"] = edge_type was run for
\* every node of the path but the last: the stored dicts themselves are written
Annotate(graph, walked) ==
    [k \in DOMAIN graph.nodes |->
       IF \E i \in 1..(Len(walked) - 1) : walked[i] = graph.nodes[k].id
       THEN LET i == CHOOSE i \in 1..(Len(walked) - 1) : walked[i] = graph.nodes[k].id
            IN  [graph.nodes[k] EXCEPT
                   !.edge_to_next = EdgeType(graph.edges, walked[i], walked[i + 1])]
       ELSE graph.nodes[k]]

\* path_details: the node dicts of the path, as they are when the handler returns
PathDetails(graph, walked) ==
    [i \in DOMAIN walked |->
       IF i < Len(walked)
       THEN [NodeInfo(graph.nodes, walked[i]) EXCEPT
               !.edge_to_next = EdgeType(graph.edges, walked[i], walked[i + 1])]
       ELSE NodeInfo(graph.nodes, walked[i])]

(***************************************************************************)
(* perform_scan and the stored scans                                       *)
(***************************************************************************)
\* d[k] = v on a dict keyed by strings
DictPutAll(d, k, v) == [x \in DOMAIN d \cup {k} |-> v]
DictPut(d, k, v) == [x \in DOMAIN d \cup {k} |-> IF x = k THEN v ELSE d[x]]

\* del d[k]
DictDrop(d, k) == [x \in DOMAIN d \ {k} |-> d[x]]

\* GET /scan/results/{scan_id}: the status code of the answer
get_scan_results(results, status, scan_id) ==
    IF scan_id \in DOMAIN results THEN 200
    ELSE IF scan_id \in DOMAIN status
            /\ status[scan_id].status \in {"running", "queued"} THEN 202
    ELSE IF scan_id \in DOMAIN status /\ status[scan_id].status = "failed" THEN 500
    ELSE 404

\* regions = request.regions or [settings.aws_default_region]
Regions == <<"us-east-1">>

ResourceKeys ==
    <<"ec2_instances", "lambda_functions", "s3_buckets", "rds_instances",
      "security_groups">>

\* all_results as perform_scan creates it
NewResults(scan_id) ==
    [scan_id |-> scan_id, regions |-> Regions, iam_data |-> NoneData,
     resource_data |-> <<>>, risk_analysis |-> NoneVal, relationships |-> NoneVal]

\* region_data: one key for every resource kind the scan_config asks for
RegionData(scan_config, res, region) ==
    LET Asked(key) ==
          CASE key = "ec2_instances" -> scan_config.scan_ec2
            [] key = "lambda_functions" -> scan_config.scan_lambda
            [] key = "s3_buckets" -> scan_config.scan_s3 /\ region = "us-east-1"
            [] key = "rds_instances" -> scan_config.scan_rds
            [] key = "security_groups" -> scan_config.scan_security_groups
    IN  [key \in {k \in Range(ResourceKeys) : Asked(k)} |-> res[key]]

\* combined_resources[key].extend(data[key]) for every region, in region order
RECURSIVE ExtendFrom(_, _, _)
ExtendFrom(by_region, key, i) ==
    IF i > Len(Regions) THEN <<>>
    ELSE (IF Regions[i] \in DOMAIN by_region /\ key \in DOMAIN by_region[Regions[i]]
          THEN by_region[Regions[i]][key] ELSE <<>>)
         \o ExtendFrom(by_region, key, i + 1)
CombinedResources(by_region) ==
    [key \in Range(ResourceKeys) |-> ExtendFrom(by_region, key, 1)]

StatusRecord(status, progress, current_step) ==
    [status |-> status, progress |-> progress, current_step |-> current_step]

\* an except branch that leaves the status as it is
UntouchedStatus(old) == old
\* the except branch of perform_scan
FailedStatus(old) ==
    [k \in DOMAIN old \cup {"error"} |->
       IF k = "status" THEN "failed" ELSE IF k = "error" THEN "raised" ELSE old[k]]

\* risk["scan_id"] = sid; risk["category"] = category, on a stored finding
MarkRisk(risk, sid, category) ==
    [k \in DOMAIN risk \cup {"scan_id", "category"} |->
       IF k = "scan_id" THEN sid ELSE IF k = "category" THEN category ELSE risk[k]]
MarkRisks(risks, sid, category) ==
    [i \in DOMAIN risks |-> MarkRisk(risks[i], sid, category)]

\* the stored entry after list_risks(scan_id=sid) walked its findings; top_risks
\* holds the same dict objects as the category lists
Listed(entry, sid) ==
    LET found == entry.risk_analysis.risks
    IN  [entry EXCEPT
           !.risk_analysis.risks =
              [category \in DOMAIN found |-> MarkRisks(found[category], sid, category)],
           !.risk_analysis.top_risks =
              [i \in DOMAIN @ |-> MarkRisk(@[i], sid, @[i].risk_type \o "_risks")]]

\* role_data["security_group_details"] = enriched_sgs, on the stored role entry
Enriched(role_data, sg_mappings) ==
    LET Known(sg_id) == HasKey(sg_mappings, "group_id", sg_id)
        known == SelectSeq(Get(role_data, "security_groups", <<>>), Known)
        enriched_sgs ==
          [i \in DOMAIN known |-> sg_mappings[KeyIndex(sg_mappings, "group_id", known[i])]]
    IN  [k \in DOMAIN role_data \cup {"security_group_details"} |->
           IF k = "security_group_details" THEN enriched_sgs ELSE role_data[k]]

(***************************************************************************)
(* Discovery records the analyzers are run on                              *)
(***************************************************************************)
\* records in one account (roles, resources and security groups together)
MaxRecords == 3
\* build_relationships calls on one RelationshipBuilder
MaxBuilds == 2
\* analyze_all calls on one RiskAnalyzer
MaxAnalyses == 2
\* policies attached to the role whose scores are computed
MaxPolicies == 3
\* compute instances running under that role
MaxInstances == 3
\* edges of the graph an access path is searched in
MaxEdges == 4
\* compute instances one role owns in the accounts whose view is built
MaxOwned == 2
\* users of the accounts whose headline list is cut
MaxUsers == 4

\* is_admin as IAMDiscoverer derives it from the attached policy names
RoleRecord(n, policies) ==
    [role_name |-> n, arn |-> "arn:aws:iam::1:role/" \o n, role_type |-> "service",
     is_admin |->
        \E i \in DOMAIN policies : policies[i].policy_name = "AdministratorAccess",
     attached_policies |-> policies]
RolePool ==
    {RoleRecord("a", <<[policy_name |-> "AdministratorAccess"]>>), RoleRecord("b", <<>>)}

\* sg_shape "records": security_groups as ResourceDiscoverer._get_ec2_details
\* emits it, a list of {group_id, group_name}; "ids": a list of group ids
Ec2Record(id, profile, pub, groups, shape) ==
    [instance_id |-> id, name |-> id, iam_instance_profile |-> profile,
     is_public |-> pub, security_groups |-> groups, sg_shape |-> shape]
Ec2Pool ==
    {Ec2Record("a", "a", TRUE, <<"g1">>, "ids"),
     Ec2Record("b", "a", TRUE, <<"g1", "g2">>, "ids"),
     Ec2Record("b", "b", FALSE, <<"g2", "g2">>, "ids"),
     Ec2Record("c", NoneVal, TRUE, <<"g1">>, "records")}

\* the instances an analysis reads: those, and a public one attached only to the
\* group without unrestricted ingress
AnalyzedEc2Pool ==
    Ec2Pool \cup {Ec2Record("d", NoneVal, TRUE, <<"g2">>, "records")}

LambdaPool ==
    {[function_name |-> "a", role |-> <<"a">>, security_groups |-> <<"g1">>],
     [function_name |-> "b", role |-> <<"arn:aws:iam::1:role", "b">>,
      security_groups |-> <<"g3">>]}

RdsPool ==
    {[db_instance_identifier |-> "a", publicly_accessible |-> TRUE,
      encrypted |-> FALSE, security_groups |-> <<"g2">>]}

S3Pool == {[bucket_name |-> "a", is_public |-> TRUE, encryption_enabled |-> FALSE]}

GroupRecord(id, net, rules) ==
    [group_id |-> id, group_name |-> "n-" \o id, has_internet_access |-> net,
     risky_rules |-> rules]
GroupPool ==
    {GroupRecord("g1", TRUE,
                 <<[from_port |-> 22, to_port |-> 22, cidr |-> "0.0.0.0/0"]>>),
     GroupRecord("g2", FALSE, <<>>)}

\* the groups an analysis reads: those, and one open to the Internet on the port
\* range 20-25
AnalyzedGroupPool ==
    GroupPool
    \cup {GroupRecord("g3", TRUE,
                      <<[from_port |-> 20, to_port |-> 25, cidr |-> "0.0.0.0/0"]>>)}

UserRecord(n, mfa, inactive, keys) ==
    [username |-> n, arn |-> "arn:aws:iam::1:user/" \o n, mfa_enabled |-> mfa,
     is_inactive |-> inactive, access_keys |-> keys, attached_policies |-> <<>>]
UserPool ==
    {UserRecord("u", FALSE, TRUE, <<[status |-> "Active"], [status |-> "Active"]>>),
     UserRecord("v", TRUE, FALSE, <<[status |-> "Active"]>>)}

\* Settings.risk_*_threshold: the defaults, and two other configurations
Thresholds(c, h, m) ==
    [risk_critical_threshold |-> c, risk_high_threshold |-> h,
     risk_medium_threshold |-> m]
DefaultSettings == Thresholds(90, 70, 40)
SettingsChoices == {DefaultSettings, Thresholds(80, 60, 50), Thresholds(100, 90, 80)}

\* a role with p attached policies, the first an administrator policy when admin
Names == <<"a", "b", "c", "d", "e", "f">>
PolicyRecord(i, admin) ==
    [policy_name |-> IF admin /\ i = 1 THEN "AdministratorAccess"
                     ELSE "Policy-" \o Names[i]]
LoadedRole(p, admin) == RoleRecord("a", [i \in 1..p |-> PolicyRecord(i, admin)])

\* the instances of that role: public or not, in the internet-open group or in none
InstanceKinds ==
    {[is_public |-> TRUE, security_groups |-> <<>>],
     [is_public |-> TRUE, security_groups |-> <<"g1">>],
     [is_public |-> FALSE, security_groups |-> <<"g1">>]}
LoadedInstances(kinds) ==
    [i \in DOMAIN kinds |->
       Ec2Record(Names[i], "a", kinds[i].is_public, kinds[i].security_groups, "ids")]

\* the identities a blast radius is asked for: the role, a user, an unknown arn
BlastTargets ==
    {"arn:aws:iam::1:role/a", "arn:aws:iam::1:user/v", "arn:aws:iam::1:role/zz"}

\* graph_data of a stored scan: four nodes and up to MaxEdges of these edges, in
\* any order
GraphNodeIds == <<"role-A", "ec2-B", "sg-C", "internet">>
GraphEdge(src, tgt, type) == [source |-> src, target |-> tgt, type |-> type]
EdgePool ==
    {GraphEdge("role-A", "ec2-B", "assumes"),
     GraphEdge("role-A", "ec2-B", "protected_by"),
     GraphEdge("ec2-B", "sg-C", "protected_by"),
     GraphEdge("sg-C", "internet", "allows_traffic_from"),
     GraphEdge("role-A", "sg-C", "protected_by"),
     GraphEdge("ec2-B", "internet", "allows_traffic_from"),
     GraphEdge("ec2-B", "role-A", "assumes"),
     GraphEdge("ec2-B", "ec2-B", "protected_by")}
EdgeLists ==
    {edges \in SeqsUpTo(EdgePool, MaxEdges) :
        \A i, j \in DOMAIN edges : i # j => edges[i] # edges[j]}
\* graphs made of a cycle, a self-loop and a way out of them
LoopPool ==
    {GraphEdge("role-A", "ec2-B", "assumes"),
     GraphEdge("ec2-B", "role-A", "assumes"),
     GraphEdge("ec2-B", "ec2-B", "protected_by"),
     GraphEdge("ec2-B", "sg-C", "protected_by"),
     GraphEdge("sg-C", "internet", "allows_traffic_from")}
LoopLists == {edges \in EdgeLists : Range(edges) \subseteq LoopPool}
\* the ids a request can name: the nodes, and an id the graph does not hold
Endpoints == Range(GraphNodeIds) \cup {"nowhere"}

\* accounts whose consolidated view is built: up to three roles in any order, and
\* for every role name up to MaxOwned instances; the first instance of a role is
\* of one chosen kind and its other instances of another
ViewRoles ==
    {RoleRecord("a", <<[policy_name |-> "AdministratorAccess"]>>),
     RoleRecord("b", <<>>), RoleRecord("c", <<>>)}
ViewRoleLists ==
    {r \in SeqsUpTo(ViewRoles, 3) : \A i, j \in DOMAIN r : r[i] = r[j] => i = j}
OwnedKinds ==
    {[is_public |-> TRUE, security_groups |-> <<>>],
     [is_public |-> FALSE, security_groups |-> <<"g1">>],
     [is_public |-> TRUE, security_groups |-> <<"g1", "g2">>]}
OwnedBy(role_name, n, kinds) ==
    [j \in 1..n |->
       LET kind == IF j = 1 THEN kinds[1] ELSE kinds[2]
       IN  Ec2Record(role_name \o "-" \o Names[j], role_name, kind.is_public,
                     kind.security_groups, "ids")]
ViewGroups ==
    <<GroupRecord("g1", TRUE,
                  <<[from_port |-> 22, to_port |-> 22, cidr |-> "0.0.0.0/0"]>>),
      GroupRecord("g2", FALSE, <<>>)>>

\* discovery's record of a role or user whose detail lookup failed
DegradedRole == [role_name |-> "d", error |-> "AccessDenied"]
DegradedUser == [username |-> "w", error |-> "AccessDenied"]

\* the accounts the scans run on: [iam, res] as a full discovery returns them
Account(roles, users, ec2, functions, buckets, rds, groups) ==
    [iam |-> [roles |-> roles, users |-> users],
     res |-> [ec2_instances |-> ec2, lambda_functions |-> functions,
              s3_buckets |-> buckets, rds_instances |-> rds,
              security_groups |-> groups]]
ScanAccounts ==
    LET role == RoleRecord("a", <<[policy_name |-> "AdministratorAccess"]>>)
        user == UserRecord("u", FALSE, TRUE, <<[status |-> "Active"]>>)
        function == [function_name |-> "a", role |-> <<"a">>, security_groups |-> <<"g1">>]
        bucket == [bucket_name |-> "a", is_public |-> TRUE, encryption_enabled |-> FALSE]
        group == GroupRecord("g1", TRUE,
                             <<[from_port |-> 22, to_port |-> 22, cidr |-> "0.0.0.0/0"]>>)
    IN  {Account(<<role>>, <<user>>, <<>>, <<function>>, <<bucket>>, <<>>, <<group>>),
         Account(<<role>>, <<>>, <<Ec2Record("c", "a", TRUE, <<"g1">>, "records")>>,
                 <<>>, <<>>, <<>>, <<group>>),
         Account(<<DegradedRole>>, <<>>, <<>>, <<>>, <<bucket>>, <<>>, <<>>),
         Account(<<role>>, <<DegradedUser>>, <<>>, <<function>>, <<>>, <<>>, <<>>),
         Account(<<>>, <<>>, <<>>, <<>>, <<>>, <<>>, <<>>)}

\* ScanRequest: what a scan is asked to cover
ScanConfig(iam, ec2, functions, buckets, rds, groups) ==
    [scan_iam |-> iam, scan_ec2 |-> ec2, scan_lambda |-> functions,
     scan_s3 |-> buckets, scan_rds |-> rds, scan_security_groups |-> groups]
ScanConfigs ==
    {ScanConfig(TRUE, TRUE, TRUE, TRUE, TRUE, TRUE),
     ScanConfig(FALSE, TRUE, TRUE, TRUE, TRUE, TRUE),
     ScanConfig(TRUE, FALSE, FALSE, TRUE, TRUE, TRUE)}
\* the ids start_scan draws: uuid4, never the same twice
ScanIds == {"s1", "s2"}

\* the iteration orders a set of group ids can have in one process
HashOrders == {<<"g1", "g2", "g3">>, <<"g3", "g2", "g1">>}

(***************************************************************************)
(* The builder under test                                                  *)
(***************************************************************************)
BuilderNew ==
    /\ relationships = <<>>
    /\ build_calls = 0
    /\ build_out = Raised
    /\ build_first = Raised
    /\ changed = FALSE

AnalyzerNew ==
    /\ risk_scores = EmptyScores
    /\ analyze_calls = 0
    /\ analyze_out = Raised
    /\ blast_out = Raised

\* no scan was requested
ScansIdle ==
    /\ scan_status = <<>>
    /\ scan_results = <<>>
    /\ scan_frames = <<>>
    /\ stored_first = <<>>

RequestIdle ==
    /\ ScansIdle
    /\ query = [source |-> NoneVal, target |-> NoneVal]
    /\ queue = <<>>
    /\ visited = {}
    /\ pc = "idle"
    /\ path_out = Raised
    /\ enqueued = <<>>

SearchIdle ==
    /\ graph_data = [nodes |-> <<>>, edges |-> <<>>]
    /\ RequestIdle

InitBuild ==
    /\ \E r \in SeqsUpTo(RolePool, MaxRecords) :
       \E e \in SeqsUpTo(Ec2Pool, MaxRecords - Len(r)) :
       \E l \in SeqsUpTo(LambdaPool, MaxRecords - Len(r) - Len(e)) :
       \E g \in SeqsUpTo(GroupPool, MaxRecords - Len(r) - Len(e) - Len(l)) :
       \E d \in SeqsUpTo(RdsPool, MaxRecords - Len(r) - Len(e) - Len(l) - Len(g)) :
       \E s \in SeqsUpTo(S3Pool,
                         MaxRecords - Len(r) - Len(e) - Len(l) - Len(g) - Len(d)) :
          /\ iam_data = [roles |-> r, users |-> <<>>]
          /\ resource_data =
               [ec2_instances |-> e, lambda_functions |-> l, s3_buckets |-> s,
                rds_instances |-> d, security_groups |-> g]
    /\ hash_seed \in HashOrders
    /\ settings = DefaultSettings
    /\ BuilderNew
    /\ AnalyzerNew
    /\ SearchIdle

\* relationship_builder.build_relationships(iam_data, resource_data)
BuildRelationships ==
    /\ build_calls < MaxBuilds
    /\ LET b == build_relationships(relationships, iam_data, resource_data, hash_seed)
       IN  /\ relationships' = b.relationships
           /\ build_out' = b.out
           /\ build_first' = IF build_calls = 0 THEN b.out ELSE build_first
    /\ build_calls' = build_calls + 1
    /\ UNCHANGED <<inputs, changed, analyzer, search, scans>>

\* between two scans the last discovered compute instance is terminated
TerminateInstance ==
    /\ build_calls = 1
    /\ ~changed
    /\ resource_data.ec2_instances # <<>>
    /\ resource_data' =
         [resource_data EXCEPT
            !.ec2_instances = SubSeq(@, 1, Len(@) - 1)]
    /\ changed' = TRUE
    /\ UNCHANGED <<iam_data, hash_seed, settings, relationships, build_calls,
                   build_out, build_first, analyzer, search, scans>>

NextBuild == BuildRelationships \/ TerminateInstance

SpecBuild == InitBuild /\ [][NextBuild]_vars

(***************************************************************************)
(* The builder on accounts with several roles that own instances           *)
(***************************************************************************)
InitView ==
    /\ \E r \in ViewRoleLists :
       \E kinds \in [1..2 -> OwnedKinds] :
       \E na, nb, nc \in 0..MaxOwned :
          /\ iam_data = [roles |-> r, users |-> <<>>]
          /\ resource_data =
               [ec2_instances |-> OwnedBy("a", na, kinds) \o OwnedBy("b", nb, kinds)
                                   \o OwnedBy("c", nc, kinds),
                lambda_functions |-> <<>>, s3_buckets |-> <<>>,
                rds_instances |-> <<>>, security_groups |-> ViewGroups]
    /\ hash_seed = <<"g1", "g2", "g3">>
    /\ settings = DefaultSettings
    /\ BuilderNew
    /\ AnalyzerNew
    /\ SearchIdle

NextView == BuildRelationships

SpecView == InitView /\ [][NextView]_vars

(***************************************************************************)
(* The analyzer under test                                                 *)
(***************************************************************************)
InitRisk ==
    /\ \E u \in SeqsUpTo(UserPool, MaxRecords) :
       \E r \in SeqsUpTo(RolePool, MaxRecords - Len(u)) :
       \E e \in SeqsUpTo(AnalyzedEc2Pool, MaxRecords - Len(u) - Len(r)) :
       \E g \in SeqsUpTo(AnalyzedGroupPool, MaxRecords - Len(u) - Len(r) - Len(e)) :
       \E d \in SeqsUpTo(RdsPool, MaxRecords - Len(u) - Len(r) - Len(e) - Len(g)) :
       \E s \in SeqsUpTo(S3Pool,
                         MaxRecords - Len(u) - Len(r) - Len(e) - Len(g) - Len(d)) :
          /\ iam_data = [roles |-> r, users |-> u]
          /\ resource_data =
               [ec2_instances |-> e, lambda_functions |-> <<>>, s3_buckets |-> s,
                rds_instances |-> d, security_groups |-> g]
    /\ hash_seed = <<"g1", "g2", "g3">>
    /\ settings \in SettingsChoices
    /\ BuilderNew
    /\ AnalyzerNew
    /\ SearchIdle

\* risk_analyzer.analyze_all(iam_data, resource_data)
AnalyzeAll ==
    /\ analyze_calls < MaxAnalyses
    /\ LET a == analyze_all(risk_scores, iam_data, resource_data, settings)
       IN  /\ risk_scores' = a.risk_scores
           /\ analyze_out' = a.out
    /\ analyze_calls' = analyze_calls + 1
    /\ UNCHANGED <<inputs, builder, blast_out, search, scans>>

NextRisk == AnalyzeAll

SpecRisk == InitRisk /\ [][NextRisk]_vars

(***************************************************************************)
(* The analyzer on accounts with more findings than the headline list holds *)
(***************************************************************************)
InitTop ==
    /\ \E u \in SeqsUpTo(UserPool, MaxUsers) :
       \E s \in SeqsUpTo(S3Pool, 2) :
       \E d \in SeqsUpTo(RdsPool, 2) :
       \E g \in SeqsUpTo(GroupPool, 2) :
          /\ iam_data = [roles |-> <<>>, users |-> u]
          /\ resource_data =
               [ec2_instances |-> <<>>, lambda_functions |-> <<>>, s3_buckets |-> s,
                rds_instances |-> d, security_groups |-> g]
    /\ hash_seed = <<"g1", "g2", "g3">>
    /\ settings = DefaultSettings
    /\ BuilderNew
    /\ AnalyzerNew
    /\ SearchIdle

NextTop == AnalyzeAll

SpecTop == InitTop /\ [][NextTop]_vars

(***************************************************************************)
(* Scores of one role with many policies and instances                     *)
(***************************************************************************)
InitScore ==
    /\ \E p \in 0..MaxPolicies :
       \E admin \in {a \in BOOLEAN : a => p >= 1} :
       \E kinds \in SeqsUpTo(InstanceKinds, MaxInstances) :
          /\ iam_data =
               [roles |-> <<LoadedRole(p, admin)>>,
                users |-> <<UserRecord("v", TRUE, FALSE, <<[status |-> "Active"]>>)>>]
          /\ resource_data =
               [ec2_instances |-> LoadedInstances(kinds), lambda_functions |-> <<>>,
                s3_buckets |-> <<>>, rds_instances |-> <<>>,
                security_groups |->
                  <<GroupRecord("g1", TRUE,
                      <<[from_port |-> 22, to_port |-> 22, cidr |-> "0.0.0.0/0"]>>)>>]
    /\ hash_seed = <<"g1", "g2", "g3">>
    /\ settings = DefaultSettings
    /\ BuilderNew
    /\ AnalyzerNew
    /\ SearchIdle

\* risk_analyzer.calculate_blast_radius(identity_arn, iam_data, resource_data)
CalculateBlastRadius ==
    /\ \E identity_arn \in BlastTargets :
          blast_out' = calculate_blast_radius(identity_arn, iam_data, resource_data)
    /\ UNCHANGED <<inputs, builder, risk_scores, analyze_calls, analyze_out, search,
                   scans>>

NextScore == AnalyzeAll \/ BuildRelationships \/ CalculateBlastRadius

SpecScore == InitScore /\ [][NextScore]_vars

(***************************************************************************)
(* The access-path request                                                 *)
(***************************************************************************)
StoredGraph(edges) ==
    [nodes |-> [i \in DOMAIN GraphNodeIds |->
                  [id |-> GraphNodeIds[i], label |-> GraphNodeIds[i],
                   edge_to_next |-> NoneVal]],
     edges |-> edges]

NoAccount ==
    /\ iam_data = [roles |-> <<>>, users |-> <<>>]
    /\ resource_data =
         [ec2_instances |-> <<>>, lambda_functions |-> <<>>, s3_buckets |-> <<>>,
          rds_instances |-> <<>>, security_groups |-> <<>>]
    /\ hash_seed = <<"g1", "g2", "g3">>
    /\ settings = DefaultSettings
    /\ BuilderNew
    /\ AnalyzerNew

InitPath ==
    /\ NoAccount
    /\ \E edges \in EdgeLists : graph_data = StoredGraph(edges)
    /\ RequestIdle

InitLoops ==
    /\ NoAccount
    /\ \E edges \in LoopLists : graph_data = StoredGraph(edges)
    /\ RequestIdle

\* get_access_path(source, target, scan_id) up to the while loop
StartSearch ==
    /\ pc = "idle"
    /\ \E src \in Endpoints, tgt \in Endpoints :
          /\ query' = [source |-> src, target |-> tgt]
          /\ queue' = <<[node |-> src, path |-> <<src>>]>>
          /\ visited' = {src}
          /\ enqueued' = <<src>>
    /\ pc' = "bfs"
    /\ UNCHANGED <<inputs, builder, analyzer, scans, graph_data, path_out>>

\* one iteration of "while queue": the target is dequeued and the path returned
ReturnPath ==
    /\ pc = "bfs"
    /\ queue # <<>>
    /\ Head(queue).node = query.target
    /\ path_out' =
         [source |-> query.source, target |-> query.target,
          path_length |-> Len(Head(queue).path) - 1,
          path |-> PathDetails(graph_data, Head(queue).path)]
    /\ graph_data' = [graph_data EXCEPT !.nodes = Annotate(graph_data, Head(queue).path)]
    /\ queue' = Tail(queue)
    /\ pc' = "done"
    /\ UNCHANGED <<inputs, builder, analyzer, scans, query, visited, enqueued>>

\* one iteration of "while queue": another node is dequeued and explored
Visit ==
    /\ pc = "bfs"
    /\ queue # <<>>
    /\ Head(queue).node # query.target
    /\ LET st == Explore(Neighbors(graph_data.edges, Head(queue).node), 1,
                         Head(queue).path,
                         [queue |-> Tail(queue), visited |-> visited,
                          enqueued |-> enqueued])
       IN  /\ queue' = st.queue
           /\ visited' = st.visited
           /\ enqueued' = st.enqueued
    /\ UNCHANGED <<inputs, builder, analyzer, scans, graph_data, query, pc, path_out>>

\* the queue ran empty: "No path found"
ReturnNoPath ==
    /\ pc = "bfs"
    /\ queue = <<>>
    /\ path_out' =
         [source |-> query.source, target |-> query.target, path_found |-> FALSE]
    /\ pc' = "done"
    /\ UNCHANGED <<inputs, builder, analyzer, scans, graph_data, query, queue, visited,
                   enqueued>>

Handler == ReturnPath \/ Visit \/ ReturnNoPath

NextPath == StartSearch \/ Handler

SpecPath == InitPath /\ [][NextPath]_vars

\* a started handler runs on until it returns
SpecLoops == InitLoops /\ [][NextPath]_vars /\ WF_vars(Handler)

(***************************************************************************)
(* Scans and the queries on their stored results                           *)
(***************************************************************************)
InitScan ==
    /\ \E account \in ScanAccounts :
          /\ iam_data = account.iam
          /\ resource_data = account.res
    /\ hash_seed = <<"g1", "g2", "g3">>
    /\ settings = DefaultSettings
    /\ BuilderNew
    /\ AnalyzerNew
    /\ SearchIdle

\* the background task of a scan: where it is, its arguments and its all_results;
\* deleted records that delete_scan was served for the id
Frame(at, scan_config, all_results) ==
    [pc |-> at, scan_config |-> scan_config, all_results |-> all_results,
     deleted |-> FALSE]
Running(s, at) == s \in DOMAIN scan_frames /\ scan_frames[s].pc = at
\* a task that goes nowhere
Stay(s, at, all_results) == scan_frames' = scan_frames
Goto(s, at, all_results) ==
    scan_frames' =
      DictPut(scan_frames, s,
              [scan_frames[s] EXCEPT !.pc = at, !.all_results = all_results])
\* scan_status[scan_id] raises KeyError
Dropped(s) == s \notin DOMAIN scan_status
\* the KeyError is raised again by the except branch: the task ends there
Abandon(s) ==
    /\ Goto(s, "done", scan_frames[s].all_results)
    /\ UNCHANGED scan_status
Progress(s, progress, current_step) ==
    scan_status' =
      DictPut(scan_status, s,
              [scan_status[s] EXCEPT !.status = "running", !.progress = progress,
                                     !.current_step = current_step])
Others == <<inputs, builder, analyzer, graph_data, query, queue, visited, pc, path_out,
            enqueued>>

\* POST /scan/start: the scan is queued under a fresh id
StartScan(s) ==
    /\ s \notin DOMAIN scan_frames
    /\ \E scan_config \in ScanConfigs :
          scan_frames' = DictPut(scan_frames, s, Frame("queued", scan_config, NoneVal))
    /\ scan_status' = DictPut(scan_status, s, StatusRecord("queued", 0, "Queued"))
    /\ UNCHANGED <<Others, scan_results, stored_first>>

\* perform_scan starts: status running, all_results created
BeginScan(s) ==
    /\ Running(s, "queued")
    /\ scan_status' = DictPut(scan_status, s, StatusRecord("running", 0, "Initializing"))
    /\ Goto(s, "iam", NewResults(s))
    /\ UNCHANGED <<Others, scan_results, stored_first>>

\* Step 1: IAM discovery, when asked for
DiscoverIam(s) ==
    /\ Running(s, "iam")
    /\ IF scan_frames[s].scan_config.scan_iam
       THEN IF Dropped(s) THEN Abandon(s)
            ELSE /\ Progress(s, 10, "Discovering IAM")
                 /\ Goto(s, "resources",
                         [scan_frames[s].all_results EXCEPT !.iam_data = iam_data])
       ELSE /\ Goto(s, "resources", scan_frames[s].all_results)
            /\ UNCHANGED scan_status
    /\ UNCHANGED <<Others, scan_results, stored_first>>

\* Step 2: resource discovery, region by region
DiscoverResources(s) ==
    /\ Running(s, "resources")
    /\ IF Dropped(s) THEN Abandon(s)
       ELSE /\ Progress(s, 60, "Discovering Resources")
            /\ Goto(s, "analyze",
                    [scan_frames[s].all_results EXCEPT
                       !.resource_data =
                          [region \in Range(Regions) |->
                             RegionData(scan_frames[s].scan_config, resource_data,
                                        region)]])
    /\ UNCHANGED <<Others, scan_results, stored_first>>

\* Step 3: risk analysis with a new RiskAnalyzer; a raise fails the scan
AnalyzeRisks(s) ==
    /\ Running(s, "analyze")
    /\ LET all_results == scan_frames[s].all_results
           a == analyze_all(EmptyScores, all_results.iam_data,
                            CombinedResources(all_results.resource_data), settings)
       IN  IF Dropped(s) THEN Abandon(s)
           ELSE IF IsRaised(a.out)
           THEN /\ scan_status' =
                     DictPut(scan_status, s,
                             FailedStatus([scan_status[s] EXCEPT
                                             !.progress = 70,
                                             !.current_step = "Analyzing Risks"]))
                /\ Goto(s, "done", all_results)
           ELSE /\ Progress(s, 70, "Analyzing Risks")
                /\ Goto(s, "build", [all_results EXCEPT !.risk_analysis = a.out])
    /\ UNCHANGED <<Others, scan_results, stored_first>>

\* Step 4: relationships with a new RelationshipBuilder; a raise fails the scan
BuildScanRelationships(s) ==
    /\ Running(s, "build")
    /\ LET all_results == scan_frames[s].all_results
           b == build_relationships(<<>>, all_results.iam_data,
                                    CombinedResources(all_results.resource_data),
                                    hash_seed)
       IN  IF Dropped(s) THEN Abandon(s)
           ELSE IF IsRaised(b.out)
           THEN /\ scan_status' =
                     DictPut(scan_status, s,
                             FailedStatus([scan_status[s] EXCEPT
                                             !.progress = 85,
                                             !.current_step = "Building Relationships"]))
                /\ Goto(s, "done", all_results)
           ELSE /\ Progress(s, 85, "Building Relationships")
                /\ Goto(s, "complete", [all_results EXCEPT !.relationships = b.out])
    /\ UNCHANGED <<Others, scan_results, stored_first>>

\* "Complete": the status is set to completed
MarkCompleted(s) ==
    /\ Running(s, "complete")
    /\ IF Dropped(s) THEN Abandon(s)
       ELSE /\ scan_status' =
                 DictPut(scan_status, s, StatusRecord("completed", 100, "Completed"))
            /\ Goto(s, "store", scan_frames[s].all_results)
    /\ UNCHANGED <<Others, scan_results, stored_first>>

\* scan_results[scan_id] = all_results
StoreResults(s) ==
    /\ Running(s, "store")
    /\ scan_results' = DictPut(scan_results, s, scan_frames[s].all_results)
    /\ stored_first' = DictPut(stored_first, s, scan_frames[s].all_results)
    /\ Goto(s, "done", scan_frames[s].all_results)
    /\ UNCHANGED <<Others, scan_status>>

\* GET /risks/list?scan_id=s
ListRisks(s) ==
    /\ s \in DOMAIN scan_results
    /\ scan_results' = DictPut(scan_results, s, Listed(scan_results[s], s))
    /\ UNCHANGED <<Others, scan_status, scan_frames, stored_first>>

\* GET /relationships/role/{role_name}?scan_id=s
GetRoleRelationships(s) ==
    /\ s \in DOMAIN scan_results
    /\ \E k \in DOMAIN scan_results[s].relationships.role_mappings :
          scan_results' =
            DictPut(scan_results, s,
                    [scan_results[s] EXCEPT
                       !.relationships.role_mappings[k] =
                          Enriched(@, scan_results[s].relationships
                                        .security_group_mappings)])
    /\ UNCHANGED <<Others, scan_status, scan_frames, stored_first>>

PerformScan(s) ==
    \/ BeginScan(s)
    \/ DiscoverIam(s)
    \/ DiscoverResources(s)
    \/ AnalyzeRisks(s)
    \/ BuildScanRelationships(s)
    \/ MarkCompleted(s)
    \/ StoreResults(s)

NextScan ==
    \E s \in ScanIds :
        StartScan(s) \/ PerformScan(s) \/ ListRisks(s) \/ GetRoleRelationships(s)

SpecScan == InitScan /\ [][NextScan]_vars

(***************************************************************************)
(* The scans with the requests that read and delete them                   *)
(***************************************************************************)
\* DELETE /scan/{scan_id}: 404 for an unknown id; the id leaves both dicts
DeleteScan(s) ==
    /\ s \in DOMAIN scan_status
    /\ scan_results' = DictDrop(scan_results, s)
    /\ scan_status' = DictDrop(scan_status, s)
    /\ scan_frames' = DictPut(scan_frames, s, [scan_frames[s] EXCEPT !.deleted = TRUE])
    /\ UNCHANGED <<Others, stored_first>>

NextStore ==
    \E s \in ScanIds :
        \/ StartScan(s) \/ PerformScan(s)
        \/ ListRisks(s) \/ GetRoleRelationships(s) \/ DeleteScan(s)

SpecStore == InitScan /\ [][NextStore]_vars

\* the account in which nothing is discovered
InitLive ==
    /\ InitScan
    /\ iam_data = [roles |-> <<>>, users |-> <<>>]
    /\ \A kind \in DOMAIN resource_data : resource_data[kind] = <<>>

\* the requests that write scan_status, and the background tasks; the delete
\* requests are for the scan with the last id
NextLive ==
    \/ \E s \in ScanIds : StartScan(s) \/ PerformScan(s)
    \/ DeleteScan("s2")

\* the background task of every scan is scheduled
SpecLive ==
    InitLive /\ [][NextLive]_vars /\ \A s \in ScanIds : WF_vars(PerformScan(s))

(***************************************************************************)
(* Properties of build_relationships                                       *)
(***************************************************************************)
Returned(out) == ~IsRaised(out)
NodeIds(out) == {out.graph_data.nodes[i].id : i \in DOMAIN out.graph_data.nodes}
RelSource(rel) == normalize_node_id(rel.source_type, rel.source)
RelTarget(rel) == normalize_node_id(rel.target_type, rel.target)

\* C1: in every graph build_relationships returns, on a first or a later call of
\* the same builder, each edge's source and target are ids of nodes of that graph.
GraphReferentialIntegrity ==
    (build_calls >= 1 /\ Returned(build_out)) =>
        \A i \in DOMAIN build_out.graph_data.edges :
            /\ build_out.graph_data.edges[i].source \in NodeIds(build_out)
            /\ build_out.graph_data.edges[i].target \in NodeIds(build_out)

\* a second build after an instance was terminated: the builder still holds a
\* relationship to the vanished instance, and the graph has edges
StaleRelationshipDropped ==
    /\ build_calls = 2 /\ changed /\ Returned(build_out)
    /\ build_out.graph_data.edges # <<>>
    /\ \E i \in DOMAIN relationships :
          RelTarget(relationships[i]) \notin NodeIds(build_out)

\* C2: the node list build_relationships returns holds no id twice, and of the
\* compute-instance records that share an id the first one is the node kept.
UniqueNodeIds ==
    (build_calls >= 1 /\ Returned(build_out)) =>
        LET nodes == build_out.graph_data.nodes
            ec2 == resource_data.ec2_instances
        IN  /\ \A i, j \in DOMAIN nodes : nodes[i].id = nodes[j].id => i = j
            /\ Cardinality({i \in DOMAIN nodes : nodes[i].id = "internet"}) = 1
            /\ \A k \in DOMAIN ec2 :
                 LET first == CHOOSE f \in DOMAIN ec2 :
                        /\ ec2[f].instance_id = ec2[k].instance_id
                        /\ \A h \in 1..(f - 1) :
                              ec2[h].instance_id # ec2[k].instance_id
                 IN  \E i \in DOMAIN nodes :
                        /\ nodes[i].id = "ec2-" \o ec2[k].instance_id
                        /\ nodes[i].type = "ec2_instance"
                        /\ nodes[i].label = ec2[first].name
                        /\ nodes[i].is_public = ec2[first].is_public

\* a returned graph for an account in which two different instance records carry
\* the same id and a role carries the natural name of an instance
DuplicateRecordsBuilt ==
    /\ build_calls >= 1 /\ Returned(build_out)
    /\ \E i, j \in DOMAIN resource_data.ec2_instances :
          /\ i < j
          /\ resource_data.ec2_instances[i].instance_id
               = resource_data.ec2_instances[j].instance_id
          /\ resource_data.ec2_instances[i].is_public
               # resource_data.ec2_instances[j].is_public
    /\ \E i, j \in DOMAIN build_out.graph_data.nodes :
          /\ build_out.graph_data.nodes[i].type = "iam_role"
          /\ build_out.graph_data.nodes[j].type = "ec2_instance"
          /\ build_out.graph_data.nodes[i].label = build_out.graph_data.nodes[j].label

\* C3: a call of build_relationships returns what a fresh builder returns for the
\* same iam_data and resource_data, also when it is the second call on the builder.
BuildDeterminism ==
    (build_calls >= 1 /\ ~changed) =>
        /\ build_out = build_first
        /\ build_out =
             build_relationships(<<>>, iam_data, resource_data, hash_seed).out

\* the references a resource list makes to security groups: <<type, id, group id>>
GroupRefs(list, type, idf) ==
    UNION {{<<type, list[i][idf], list[i].security_groups[j]>> :
               j \in DOMAIN list[i].security_groups} : i \in DOMAIN list}
AllGroupRefs ==
    GroupRefs(resource_data.ec2_instances, "ec2_instance", "instance_id")
    \cup GroupRefs(resource_data.lambda_functions, "lambda_function", "function_name")
    \cup GroupRefs(resource_data.rds_instances, "rds_instance",
                   "db_instance_identifier")
Enumerated(g) ==
    \E i \in DOMAIN resource_data.security_groups :
        resource_data.security_groups[i].group_id = g
GroupEntry(out, g) ==
    out.security_group_mappings[KeyIndex(out.security_group_mappings, "group_id", g)]

\* C7: when a resource references a security group that was not enumerated, the
\* build returns, and the map holds an entry for it with has_internet_access
\* false, the id as name and the resource attached; an enumerated group keeps
\* the enumerated name and flag.
OrphanedGroupSynthesized ==
    (build_calls >= 1 /\ ~changed) =>
        /\ (\E ref \in AllGroupRefs : ~Enumerated(ref[3])) => Returned(build_out)
        /\ Returned(build_out) =>
             /\ \A ref \in AllGroupRefs :
                  /\ HasKey(build_out.security_group_mappings, "group_id", ref[3])
                  /\ \E k \in DOMAIN GroupEntry(build_out, ref[3]).resources :
                        /\ GroupEntry(build_out, ref[3]).resources[k].resource_type
                             = ref[1]
                        /\ GroupEntry(build_out, ref[3]).resources[k].resource_id
                             = ref[2]
                  /\ ~Enumerated(ref[3]) =>
                        /\ ~GroupEntry(build_out, ref[3]).has_internet_access
                        /\ GroupEntry(build_out, ref[3]).group_name = ref[3]
             /\ \A i \in DOMAIN resource_data.security_groups :
                  LET sg == resource_data.security_groups[i]
                  IN  /\ GroupEntry(build_out, sg.group_id).group_name = sg.group_name
                      /\ \E j \in DOMAIN resource_data.security_groups :
                            /\ resource_data.security_groups[j].group_id = sg.group_id
                            /\ GroupEntry(build_out, sg.group_id).has_internet_access
                                 = resource_data.security_groups[j].has_internet_access

(***************************************************************************)
(* Properties of analyze_all                                               *)
(***************************************************************************)
AllFindings(out) ==
    out.risks.identity_risks \o out.risks.resource_risks
      \o out.risks.network_risks \o out.risks.compliance_risks

\* C4: after every analyze_all call that returns, also a second one on the same
\* analyzer, the four bucket counts add up to total_risks, the number of findings
\* of that call.
SeverityPartition ==
    (analyze_calls >= 1 /\ Returned(analyze_out)) =>
        /\ analyze_out.risk_summary.critical + analyze_out.risk_summary.high
             + analyze_out.risk_summary.medium + analyze_out.risk_summary.low
           = analyze_out.risk_summary.total_risks
        /\ analyze_out.risk_summary.total_risks = Len(AllFindings(analyze_out))

\* C5: under every configured threshold triple, the severity field of each finding
\* of a returned analysis is the bucket its risk_score falls into.
SeverityFromScore ==
    (analyze_calls >= 1 /\ Returned(analyze_out)) =>
        \A i \in DOMAIN AllFindings(analyze_out) :
            AllFindings(analyze_out)[i].severity
              = Bucket(AllFindings(analyze_out)[i].risk_score, settings)

(***************************************************************************)
(* Properties of the scores                                                *)
(***************************************************************************)
InRange(score) == score \in 0..100

\* the sums the two formulas reach before min(100, ...) is applied
RawRoleRisk(role_data, sg_mappings) ==
    LET Open(sg_id) ==
            \E k \in DOMAIN sg_mappings :
                sg_mappings[k].group_id = sg_id /\ sg_mappings[k].has_internet_access
    IN  (IF role_data.is_admin THEN 50 ELSE 0)
        + 20 * Cardinality({i \in DOMAIN role_data.resources :
                               role_data.resources[i].is_public})
        + 15 * Cardinality({i \in DOMAIN role_data.security_groups :
                               Open(role_data.security_groups[i])})
RawBlast(role, instances) ==
    10 * Len(instances) + 5 * Len(role.attached_policies)
    + 20 * Cardinality({i \in DOMAIN instances : instances[i].is_public})

\* C6: every risk_score of a finding returned by analyze_all, every risk_score
\* returned by calculate_blast_radius and every risk_level of the consolidated view
\* is in 0..100, whatever the number of policies, instances and public instances.
ScoreClamp ==
    /\ Returned(analyze_out) =>
         \A i \in DOMAIN AllFindings(analyze_out) :
             InRange(AllFindings(analyze_out)[i].risk_score)
    /\ Returned(blast_out) => InRange(blast_out.risk_score)
    /\ Returned(build_out) =>
         \A i \in DOMAIN build_out.consolidated_view.iam_roles :
             InRange(build_out.consolidated_view.iam_roles[i].risk_level)

\* a role whose raw sums pass 100 in both formulas was scored by both, and analysed
RawSumsAbove100 ==
    /\ Returned(analyze_out) /\ AllFindings(analyze_out) # <<>>
    /\ Returned(blast_out) /\ Returned(build_out)
    /\ blast_out.identity_arn = iam_data.roles[1].arn
    /\ RawBlast(iam_data.roles[1], resource_data.ec2_instances) > 100
    /\ blast_out.risk_score = 100
    /\ build_out.consolidated_view.iam_roles # <<>>
    /\ RawRoleRisk(build_out.role_mappings[1], build_out.security_group_mappings) > 100
    /\ build_out.consolidated_view.iam_roles[1].risk_level = 100

(***************************************************************************)
(* Properties of get_access_path                                           *)
(***************************************************************************)
Found(out) == "path" \in DOMAIN out
NoPath(out) == "path_found" \in DOMAIN out
PathIds(out) == [i \in DOMAIN out.path |-> out.path[i].id]

\* the nodes within k hops of src, following edges from source to target
RECURSIVE ReachIn(_, _, _)
ReachIn(edges, src, k) ==
    IF k = 0 THEN {src}
    ELSE LET near == ReachIn(edges, src, k - 1)
         IN  near \cup {edges[i].target : i \in {j \in DOMAIN edges : edges[j].source \in near}}
Reachable(edges, src, tgt) == tgt \in ReachIn(edges, src, Len(edges))
Distance(edges, src, tgt) ==
    CHOOSE k \in 0..Len(edges) :
        /\ tgt \in ReachIn(edges, src, k)
        /\ \A j \in 0..(k - 1) : tgt \notin ReachIn(edges, src, j)

\* C8: a finished query returned a path iff the target is reachable from the source
\* along the edges' direction; the path starts at the source, ends at the target,
\* each consecutive pair of its nodes is an edge of the graph, and path_length is the
\* minimum number of hops; otherwise the query returned the 'no path' result.
PathQueryCorrect ==
    pc = "done" =>
        /\ Found(path_out) <=> Reachable(graph_data.edges, query.source, query.target)
        /\ Found(path_out) \/ NoPath(path_out)
        /\ NoPath(path_out) =>
             path_out = [source |-> query.source, target |-> query.target,
                         path_found |-> FALSE]
        /\ Found(path_out) =>
             /\ PathIds(path_out)[1] = query.source
             /\ PathIds(path_out)[Len(path_out.path)] = query.target
             /\ \A i \in 1..(Len(path_out.path) - 1) :
                   \E e \in DOMAIN graph_data.edges :
                       /\ graph_data.edges[e].source = PathIds(path_out)[i]
                       /\ graph_data.edges[e].target = PathIds(path_out)[i + 1]
             /\ path_out.path_length = Len(path_out.path) - 1
             /\ path_out.path_length
                  = Distance(graph_data.edges, query.source, query.target)

\* the chain role-A -> ec2-B -> sg-C -> internet was queried forward: three hops
ForwardChainFound ==
    /\ pc = "done"
    /\ query = [source |-> "role-A", target |-> "internet"]
    /\ Found(path_out)
    /\ path_out.path_length = 3

NoNodeEnqueuedTwice ==
    \A i, j \in DOMAIN enqueued : i # j => enqueued[i] # enqueued[j]

\* C9: on every graph, with cycles and self-loops too, no node id is put on the
\* queue more than once, and a search that started ends.
SearchTerminates ==
    /\ []NoNodeEnqueuedTwice
    /\ (pc = "bfs") ~> (pc = "done")

\* a search went round a cycle and past a self-loop, and ended
CycleSearched ==
    /\ pc = "done"
    /\ query.source = "role-A"
    /\ \E i \in DOMAIN graph_data.edges :
          graph_data.edges[i] = GraphEdge("ec2-B", "role-A", "assumes")
    /\ \E i \in DOMAIN graph_data.edges :
          graph_data.edges[i] = GraphEdge("ec2-B", "ec2-B", "protected_by")
    /\ {"role-A", "ec2-B", "sg-C"} \subseteq visited
    /\ NoPath(path_out)

\* the walks of n hops from src to tgt, each as the list of its edges' positions
Walks(edges, src, tgt, n) ==
    {w \in [1..n -> DOMAIN edges] :
        /\ n = 0 => src = tgt
        /\ n > 0 => edges[w[1]].source = src /\ edges[w[n]].target = tgt
        /\ \A i \in 1..(n - 1) : edges[w[i]].target = edges[w[i + 1]].source}
\* v comes before w when, at the first hop where they differ, v takes the edge that
\* is earlier in the edge list
Before(v, w) ==
    \E i \in DOMAIN v : v[i] < w[i] /\ \A j \in 1..(i - 1) : v[j] = w[j]
FirstWalk(edges, src, tgt, n) ==
    CHOOSE v \in Walks(edges, src, tgt, n) :
        \A w \in Walks(edges, src, tgt, n) : w = v \/ Before(v, w)

\* C10: the returned path is, among the shortest walks from source to target, the
\* one whose hops come first in edge-list order, and every node of it but the last
\* carries in edge_to_next the type of the edge of that walk leaving it (of two
\* parallel edges, the first in the list).
PathTieBreak ==
    (pc = "done" /\ Found(path_out)) =>
        LET v == FirstWalk(graph_data.edges, query.source, query.target,
                           path_out.path_length)
        IN  /\ Len(path_out.path) = path_out.path_length + 1
            /\ \A i \in 1..path_out.path_length :
                  /\ PathIds(path_out)[i] = graph_data.edges[v[i]].source
                  /\ PathIds(path_out)[i + 1] = graph_data.edges[v[i]].target
                  /\ path_out.path[i].edge_to_next = graph_data.edges[v[i]].type

\* two shortest paths through different nodes, and two parallel edges of different
\* types on the one returned, the edges listed against the order of EdgePool
TieBroken ==
    /\ pc = "done"
    /\ Found(path_out)
    /\ graph_data.edges =
         <<GraphEdge("role-A", "sg-C", "protected_by"),
           GraphEdge("role-A", "ec2-B", "protected_by"),
           GraphEdge("role-A", "ec2-B", "assumes"),
           GraphEdge("ec2-B", "sg-C", "protected_by")>>
    /\ query = [source |-> "role-A", target |-> "ec2-B"]
    /\ path_out.path[1].edge_to_next = "protected_by"

(***************************************************************************)
(* Properties of the stored scans                                          *)
(***************************************************************************)
\* C11: whatever queries were served, the stored entry of every scan (its nodes,
\* role map and findings) equals the entry perform_scan stored at completion.
NoMutationAfterCompletion ==
    \A s \in DOMAIN scan_results : scan_results[s] = stored_first[s]

(***************************************************************************)
(* Properties of the blast radius of an unknown identity                   *)
(***************************************************************************)
\* the arn is the arn of no role and of no user of iam_data
UnknownIdentity(identity_arn) ==
    /\ \A i \in DOMAIN iam_data.roles :
          Get(iam_data.roles[i], "arn", NoneVal) # identity_arn
    /\ \A i \in DOMAIN iam_data.users :
          Get(iam_data.users[i], "arn", NoneVal) # identity_arn

\* C12: every call of calculate_blast_radius returns, and for an identity arn that
\* is the arn of no role and no user it returns that arn with no affected resources,
\* no permissions and risk_score 0, whatever the resources are.
BlastRadiusNotFound ==
    [][blast_out' # blast_out =>
         /\ Returned(blast_out')
         /\ UnknownIdentity(blast_out'.identity_arn) =>
              blast_out' = [identity_arn |-> blast_out'.identity_arn,
                            affected_resources |-> <<>>,
                            permissions |-> <<>>, risk_score |-> 0]]_vars

\* the unknown arn was asked for in an account whose role has policies and instances
UnknownIdentityAsked ==
    /\ Returned(blast_out)
    /\ UnknownIdentity(blast_out.identity_arn)
    /\ iam_data.roles[1].attached_policies # <<>>
    /\ resource_data.ec2_instances # <<>>

(***************************************************************************)
(* Properties of the finding of a public compute instance                  *)
(***************************************************************************)
\* some group attached to the instance is a discovered group with unrestricted
\* ingress
AttachedToOpenGroup(instance) ==
    \E i \in DOMAIN instance.security_groups :
    \E j \in DOMAIN resource_data.security_groups :
        /\ resource_data.security_groups[j].group_id = instance.security_groups[i]
        /\ resource_data.security_groups[j].has_internet_access

\* every group attached to the instance was discovered
GroupsDiscovered(instance) ==
    \A i \in DOMAIN instance.security_groups :
    \E j \in DOMAIN resource_data.security_groups :
        resource_data.security_groups[j].group_id = instance.security_groups[i]

PublicInstanceFindings(out, instance) ==
    SelectSeq(out.risks.resource_risks,
              LAMBDA risk : risk.risk_id = "EC2-PUBLIC-" \o instance.instance_id)

\* C13: in a returned analysis every public compute instance whose groups were
\* discovered has a finding, and
\* that finding has score 90 and severity critical when a group attached to the
\* instance has unrestricted ingress, and score 70 and severity high when none has.
PublicInstanceScore ==
    (analyze_calls >= 1 /\ Returned(analyze_out)) =>
        \A i \in DOMAIN resource_data.ec2_instances :
            LET instance == resource_data.ec2_instances[i]
                found == PublicInstanceFindings(analyze_out, instance)
            IN  (instance.is_public /\ GroupsDiscovered(instance)) =>
                  /\ found # <<>>
                  /\ \A k \in DOMAIN found :
                        IF AttachedToOpenGroup(instance)
                        THEN found[k].risk_score = 90 /\ found[k].severity = "critical"
                        ELSE found[k].risk_score = 70 /\ found[k].severity = "high"

(***************************************************************************)
(* Properties of perform_scan                                              *)
(***************************************************************************)
\* discovery left a role or a user with only its name and an error
Degraded(iam) ==
    \/ \E i \in DOMAIN iam.roles : "error" \in DOMAIN iam.roles[i]
    \/ \E i \in DOMAIN iam.users : "error" \in DOMAIN iam.users[i]

\* perform_scan returned for scan s
ScanOver(s) == s \in DOMAIN scan_frames /\ scan_frames[s].pc = "done"

\* C14: a scan that covers IAM, of an account where the detail lookup of a role or
\* of a user failed and no compute instance is in a security group, ends with
\* status completed: the analysis and the relationship build both return.
DegradationTolerated ==
    \A s \in DOMAIN scan_frames :
        (/\ ScanOver(s)
         /\ scan_frames[s].scan_config.scan_iam
         /\ Degraded(iam_data)
         /\ \A i \in DOMAIN resource_data.ec2_instances :
               resource_data.ec2_instances[i].security_groups = <<>>)
        => scan_status[s].status = "completed"

\* what perform_scan computes for scan s when it is the only scan: all_results
\* after the four steps on the account's discovery data
SoloResults(s, scan_config) ==
    LET iam == IF scan_config.scan_iam THEN iam_data ELSE NoneData
        by_region == [region \in Range(Regions) |->
                        RegionData(scan_config, resource_data, region)]
        combined == CombinedResources(by_region)
    IN  [scan_id |-> s, regions |-> Regions, iam_data |-> iam,
         resource_data |-> by_region,
         risk_analysis |-> analyze_all(EmptyScores, iam, combined, settings).out,
         relationships |-> build_relationships(<<>>, iam, combined, hash_seed).out]
SoloCompletes(s, scan_config) ==
    /\ Returned(SoloResults(s, scan_config).risk_analysis)
    /\ Returned(SoloResults(s, scan_config).relationships)

\* C15: in every interleaving of the steps of two scans, a scan that is over has
\* stored exactly what it stores when it runs alone on the account, under its own
\* id, with the status record of a scan run alone (completed, or failed at the step
\* that fails alone), and the stored scans are the completed ones.
ScanIsolation ==
    /\ DOMAIN scan_results = DOMAIN stored_first
    /\ \A s \in DOMAIN stored_first : ScanOver(s)
    /\ \A s \in DOMAIN scan_frames :
          ScanOver(s) =>
            IF SoloCompletes(s, scan_frames[s].scan_config)
            THEN /\ s \in DOMAIN stored_first
                 /\ stored_first[s] = SoloResults(s, scan_frames[s].scan_config)
                 /\ scan_results[s].scan_id = s
                 /\ scan_status[s] = StatusRecord("completed", 100, "Completed")
            ELSE /\ s \notin DOMAIN stored_first
                 /\ scan_status[s].status = "failed"
                 /\ scan_status[s].progress =
                      IF Returned(SoloResults(s, scan_frames[s].scan_config).risk_analysis)
                      THEN 85 ELSE 70

\* two scans with different configurations both stored results, and the results
\* differ in more than the id
TwoScansStored ==
    /\ DOMAIN stored_first = ScanIds
    /\ scan_frames["s1"].scan_config # scan_frames["s2"].scan_config
    /\ stored_first["s1"].relationships # stored_first["s2"].relationships
    /\ stored_first["s1"].risk_analysis.risk_summary.total_risks > 0

(***************************************************************************)
(* Properties of the edges and of the role index                           *)
(***************************************************************************)
\* C16: in every graph build_relationships returns, on a first or a later call of
\* the same builder, no two edges have the same source, target and type.
EdgeUniqueness ==
    (build_calls >= 1 /\ Returned(build_out)) =>
        \A i, j \in DOMAIN build_out.graph_data.edges :
            (/\ build_out.graph_data.edges[i].source = build_out.graph_data.edges[j].source
             /\ build_out.graph_data.edges[i].target = build_out.graph_data.edges[j].target
             /\ build_out.graph_data.edges[i].type = build_out.graph_data.edges[j].type)
            => i = j

\* the compute instances of the account whose instance profile names the role
OwnedInstances(role_name) ==
    SelectSeq(resource_data.ec2_instances,
              LAMBDA instance : instance.iam_instance_profile = role_name)
\* the functions of the account whose role reference ends in the role's name
OwnedFunctions(role_name) ==
    SelectSeq(resource_data.lambda_functions,
              LAMBDA function : function.role # <<>>
                                /\ function.role[Len(function.role)] = role_name)
Discovered(role_name) ==
    \E i \in DOMAIN iam_data.roles : iam_data.roles[i].role_name = role_name
\* the place of a role in the input: its first record in iam_data.roles
InputPlace(role_name) ==
    CHOOSE i \in DOMAIN iam_data.roles :
        /\ iam_data.roles[i].role_name = role_name
        /\ \A j \in 1..(i - 1) : iam_data.roles[j].role_name # role_name
ViewRows(role_name) ==
    {i \in DOMAIN build_out.consolidated_view.iam_roles :
        build_out.consolidated_view.iam_roles[i].role_name = role_name}

\* C17: the consolidated view of a returned build has exactly one row for every
\* discovered role that owns an instance or a function and none for any other role,
\* every discovered role is in role_mappings, and the rows are in non-increasing
\* risk_level order, rows of equal risk_level in the input order of their roles.
ConsolidatedViewRows ==
    (build_calls >= 1 /\ Returned(build_out)) =>
        LET rows == build_out.consolidated_view.iam_roles
        IN  /\ \A r \in DOMAIN iam_data.roles :
                  LET role_name == iam_data.roles[r].role_name
                  IN  /\ HasKey(build_out.role_mappings, "role_name", role_name)
                      /\ Cardinality(ViewRows(role_name)) =
                           IF OwnedInstances(role_name) \o OwnedFunctions(role_name) # <<>>
                           THEN 1 ELSE 0
            /\ \A i \in DOMAIN rows : Discovered(rows[i].role_name)
            /\ \A i, j \in DOMAIN rows :
                  i < j =>
                    /\ rows[i].risk_level >= rows[j].risk_level
                    /\ rows[i].risk_level = rows[j].risk_level =>
                         InputPlace(rows[i].role_name) < InputPlace(rows[j].role_name)

\* two roles of equal risk are rows of the view, c before b as in the input, and
\* the role between them in the input owns nothing and has no row
TiedRowsAndEmptyRole ==
    /\ build_calls >= 1 /\ Returned(build_out)
    /\ Len(iam_data.roles) = 3
    /\ iam_data.roles[1].role_name = "c" /\ iam_data.roles[3].role_name = "b"
    /\ OwnedInstances(iam_data.roles[2].role_name) = <<>>
    /\ Len(build_out.consolidated_view.iam_roles) = 2
    /\ build_out.consolidated_view.iam_roles[1].risk_level
         = build_out.consolidated_view.iam_roles[2].risk_level
    /\ build_out.consolidated_view.iam_roles[1].risk_level > 0

\* the groups with unrestricted ingress among the discovered ones that the
\* instances and functions of a role refer to
OpenGroupsOf(role_name) ==
    {g \in UNION {Range(OwnedInstances(role_name)[i].security_groups) :
                    i \in DOMAIN OwnedInstances(role_name)}
           \cup UNION {Range(OwnedFunctions(role_name)[i].security_groups) :
                         i \in DOMAIN OwnedFunctions(role_name)} :
        \E j \in DOMAIN resource_data.security_groups :
            /\ resource_data.security_groups[j].group_id = g
            /\ resource_data.security_groups[j].has_internet_access}
PublicOwned(role_name) ==
    Cardinality({i \in DOMAIN OwnedInstances(role_name) :
                    OwnedInstances(role_name)[i].is_public})

\* C18: every row of the consolidated view has risk_level = min(100, 50 for an
\* admin role + 20 for every public instance of the role + 15 for every distinct
\* group with unrestricted ingress its resources refer to).
RoleRiskFormula ==
    (build_calls >= 1 /\ Returned(build_out)) =>
        \A i \in DOMAIN build_out.consolidated_view.iam_roles :
            LET row == build_out.consolidated_view.iam_roles[i]
                raw == (IF iam_data.roles[InputPlace(row.role_name)].is_admin
                        THEN 50 ELSE 0)
                       + 20 * PublicOwned(row.role_name)
                       + 15 * Cardinality(OpenGroupsOf(row.role_name))
            IN  row.risk_level = IF raw > 100 THEN 100 ELSE raw

\* a role whose two instances share the open group has a row: the group counts once
SharedGroupCountedOnce ==
    /\ build_calls >= 1 /\ Returned(build_out)
    /\ \E i \in DOMAIN build_out.consolidated_view.iam_roles :
          LET row == build_out.consolidated_view.iam_roles[i]
          IN  /\ Len(OwnedInstances(row.role_name)) = 2
              /\ \A k \in 1..2 :
                    "g1" \in Range(OwnedInstances(row.role_name)[k].security_groups)
              /\ ~row.is_admin
              /\ row.risk_level = 35

\* names of roles and ids of resources in the accounts that are built
IndexNames == {"a", "b", "c", "d", NoneVal}
ResourceTypes == {"ec2_instance", "lambda_function"}
\* the records of the account with that type and id whose owner reference resolves
\* to the role, when the role was discovered
OwnedCount(role_name, type, id) ==
    IF ~Discovered(role_name) THEN 0
    ELSE IF type = "ec2_instance"
    THEN Cardinality({i \in DOMAIN OwnedInstances(role_name) :
                         OwnedInstances(role_name)[i].instance_id = id})
    ELSE Cardinality({i \in DOMAIN OwnedFunctions(role_name) :
                         OwnedFunctions(role_name)[i].function_name = id})
\* the entries of the role's resources in a role map with that type and id
IndexedCount(role_map, role_name, type, id) ==
    LET k == KeyIndex(role_map, "role_name", role_name)
    IN  IF k = 0 THEN 0
        ELSE Cardinality({i \in DOMAIN role_map[k].resources :
                             /\ role_map[k].resources[i].resource_type = type
                             /\ role_map[k].resources[i].resource_id = id})
\* the 'assumes' relationships role -> resource in a list of relationships
AssumesCount(rels, role_name, type, id) ==
    Cardinality({i \in DOMAIN rels :
                    rels[i] = Relationship(role_name, "iam_role", id, type, "assumes")})

GroupIds == {"g1", "g2", "g3"}
\* the group was discovered with unrestricted ingress
DiscoveredOpen(sg_id) ==
    \E j \in DOMAIN resource_data.security_groups :
        /\ resource_data.security_groups[j].group_id = sg_id
        /\ resource_data.security_groups[j].has_internet_access
ExposureEdges(out, sg_id) ==
    {i \in DOMAIN out.graph_data.edges :
        out.graph_data.edges[i] =
           [source |-> "sg-" \o sg_id, target |-> "internet",
            type |-> "allows_traffic_from"]}

\* C20: every graph build_relationships returns has exactly one node with id
\* 'internet'; it has an allows_traffic_from edge from a security group's node to
\* 'internet' exactly when the group has unrestricted ingress and has a node in
\* the graph, and then one; and no other edge has 'internet' as its target.
InternetExposure ==
    (build_calls >= 1 /\ Returned(build_out)) =>
        /\ Cardinality({i \in DOMAIN build_out.graph_data.nodes :
                           build_out.graph_data.nodes[i].id = "internet"}) = 1
        /\ \A sg_id \in GroupIds :
              Cardinality(ExposureEdges(build_out, sg_id)) =
                 IF DiscoveredOpen(sg_id) /\ ("sg-" \o sg_id) \in NodeIds(build_out)
                 THEN 1 ELSE 0
        /\ \A i \in DOMAIN build_out.graph_data.edges :
              build_out.graph_data.edges[i].target = "internet" =>
                 \E sg_id \in GroupIds : i \in ExposureEdges(build_out, sg_id)

\* a graph with the nodes of an open group and of a closed one, and one edge to
\* the Internet node
OneGroupExposed ==
    /\ build_calls >= 1 /\ Returned(build_out)
    /\ {"sg-g1", "sg-g2"} \subseteq NodeIds(build_out)
    /\ DiscoveredOpen("g1")
    /\ Cardinality(ExposureEdges(build_out, "g1")) = 1
    /\ ExposureEdges(build_out, "g2") = {}

(***************************************************************************)
(* Properties of the headline list                                         *)
(***************************************************************************)
\* the place of the p-th finding in the list of all findings sorted by score,
\* highest first, findings of equal score in their order
SortedPlace(all, p) ==
    1 + Cardinality({q \in DOMAIN all :
                        \/ all[q].risk_score > all[p].risk_score
                        \/ all[q].risk_score = all[p].risk_score /\ q < p})

\* C21: top_risks of a returned analysis holds min(10, n) findings: the finding at
\* each of the first ten places of the n findings sorted by score, highest first;
\* so it is in non-increasing score order and no finding left out has a score
\* above one that is in it.
HeadlineList ==
    (analyze_calls >= 1 /\ Returned(analyze_out)) =>
        LET all == AllFindings(analyze_out)
            top == analyze_out.top_risks
        IN  /\ Len(top) = IF Len(all) < 10 THEN Len(all) ELSE 10
            /\ \A p \in DOMAIN all :
                  SortedPlace(all, p) <= 10 => top[SortedPlace(all, p)] = all[p]
            /\ \A i, j \in DOMAIN top :
                  i < j => top[i].risk_score >= top[j].risk_score
            /\ \A p \in DOMAIN all, i \in DOMAIN top :
                  SortedPlace(all, p) > 10 => all[p].risk_score <= top[i].risk_score

\* more than ten findings of several scores were cut to ten
HeadlineCut ==
    /\ analyze_calls >= 1 /\ Returned(analyze_out)
    /\ Len(AllFindings(analyze_out)) > 10
    /\ Len(analyze_out.top_risks) = 10
    /\ analyze_out.top_risks[1].risk_score > analyze_out.top_risks[10].risk_score

(***************************************************************************)
(* Properties of the finding of an open security group                     *)
(***************************************************************************)
\* some risky rule of the group opens one of the sensitive ports
OpensSensitivePort(sg) ==
    \E i \in DOMAIN sg.risky_rules :
    \E port \in {22, 3389, 1433, 3306, 5432, 27017} :
        sg.risky_rules[i].from_port <= port /\ port <= sg.risky_rules[i].to_port

GroupFindings(out, sg_id) ==
    SelectSeq(out.risks.network_risks,
              LAMBDA risk : risk.risk_id = "SG-INTERNET-" \o sg_id)

\* C22: a returned analysis has one network finding for every enumerated record
\* of a group with unrestricted ingress and none for another group; the finding
\* has score 95 and severity critical when a risky rule of the group opens a
\* sensitive port, and score 85 and severity high when none does.
SensitivePortEscalation ==
    (analyze_calls >= 1 /\ Returned(analyze_out)) =>
        \A j \in DOMAIN resource_data.security_groups :
            LET sg == resource_data.security_groups[j]
                found == GroupFindings(analyze_out, sg.group_id)
            IN  /\ Len(found) =
                     Cardinality({k \in DOMAIN resource_data.security_groups :
                        /\ resource_data.security_groups[k].group_id = sg.group_id
                        /\ resource_data.security_groups[k].has_internet_access})
                /\ \A k \in DOMAIN found :
                      IF OpensSensitivePort(sg)
                      THEN found[k].risk_score = 95 /\ found[k].severity = "critical"
                      ELSE found[k].risk_score = 85 /\ found[k].severity = "high"

(***************************************************************************)
(* Properties of the summary                                               *)
(***************************************************************************)
RelationshipEdges(out) ==
    {i \in DOMAIN out.graph_data.edges :
        out.graph_data.edges[i].type \in {"assumes", "protected_by"}}
OpenGroupEntries(out) ==
    {i \in DOMAIN out.security_group_mappings :
        out.security_group_mappings[i].has_internet_access}

\* C23: in every result of build_relationships, on a first or a later call of the
\* same builder, summary.total_relationships is the number of 'assumes' and
\* 'protected_by' edges of the graph and summary.security_groups_with_internet is
\* the number of entries of the security-group map with has_internet_access.
SummaryAgreesWithGraph ==
    (build_calls >= 1 /\ Returned(build_out)) =>
        /\ build_out.summary.total_relationships
             = Cardinality(RelationshipEdges(build_out))
        /\ build_out.summary.security_groups_with_internet
             = Cardinality(OpenGroupEntries(build_out))

(***************************************************************************)
(* Properties of the scan store                                            *)
(***************************************************************************)
Completed(s) == s \in DOMAIN scan_status /\ scan_status[s].status = "completed"

\* C24: in every state of the scan store a scan has an entry in scan_results
\* exactly when its status is completed, so the results request of a scan whose
\* status reads completed is never answered 404.
ResultsIffCompleted ==
    \A s \in ScanIds :
        /\ s \in DOMAIN scan_results <=> Completed(s)
        /\ Completed(s) => get_scan_results(scan_results, scan_status, s) # 404

Deleted(s) == s \in DOMAIN scan_frames /\ scan_frames[s].deleted

\* C25: once delete_scan was served for a scan, the scan is in neither
\* scan_status nor scan_results in any later state, whatever its background task
\* does afterwards; and every scan with stored results has a status entry.
DeleteIsFinal ==
    /\ \A s \in ScanIds :
          Deleted(s) => s \notin DOMAIN scan_status /\ s \notin DOMAIN scan_results
    /\ DOMAIN scan_results \subseteq DOMAIN scan_status

\* the account has a public compute instance as discovery emits it, its
\* security_groups a list of {group_id, group_name} records with an element
DiscoveryShapedInstance ==
    \E i \in DOMAIN resource_data.ec2_instances :
        /\ resource_data.ec2_instances[i].is_public
        /\ resource_data.ec2_instances[i].sg_shape = "records"
        /\ resource_data.ec2_instances[i].security_groups # <<>>
AllFlags == ScanConfig(TRUE, TRUE, TRUE, TRUE, TRUE, TRUE)

\* C26: a scan of everything, of an account without degraded records that has a
\* public compute instance in the shape discovery emits, ends with status
\* completed: analyze_all and build_relationships both return on that record.
SameInstanceRecordAccepted ==
    \A s \in DOMAIN scan_frames :
        (/\ ScanOver(s) /\ ~Deleted(s)
         /\ scan_frames[s].scan_config = AllFlags
         /\ DiscoveryShapedInstance
         /\ ~Degraded(iam_data))
        => /\ Returned(analyze_all(EmptyScores, iam_data, resource_data, settings).out)
           /\ Returned(build_relationships(<<>>, iam_data, resource_data, hash_seed).out)
           /\ Completed(s)

\* the status field of a scan, "none" while it has no status entry
StatusOf(s) == IF s \in DOMAIN scan_status THEN scan_status[s].status ELSE "none"

EveryConfigurationCompletes ==
    \A s \in DOMAIN scan_frames :
        (/\ ScanOver(s) /\ ~Deleted(s)
         /\ ~Degraded(iam_data)
         /\ \A i \in DOMAIN resource_data.ec2_instances :
               resource_data.ec2_instances[i].security_groups = <<>>)
        => Completed(s)

\* the resource ids in a list of resource entries
ResourceIds(entries) == {entries[i].resource_id : i \in DOMAIN entries}
\* the resource ids of role_mappings[role_name].resources, empty without the key
MappedIds(role_map, role_name) ==
    LET k == KeyIndex(role_map, "role_name", role_name)
    IN  IF k = 0 THEN {} ELSE ResourceIds(role_map[k].resources)

\* C29: for every discovered role, the resource ids in the affected_resources of
\* calculate_blast_radius(role.arn) are the resource ids of
\* role_mappings[role_name].resources that build_relationships returns for the
\* same iam_data and resource_data.
BlastRadiusAgreesWithRoleMap ==
    [][(build_calls' = build_calls + 1 /\ Returned(build_out')) =>
         \A i \in DOMAIN iam_data.roles :
            LET role == iam_data.roles[i]
                blast == calculate_blast_radius(role.arn, iam_data, resource_data)
            IN  /\ Returned(blast)
                /\ ResourceIds(blast.affected_resources)
                     = MappedIds(build_out'.role_mappings, role.role_name)]_vars

\* the scan was accepted by start_scan and no delete request was served for it
Accepted(s) == s \in DOMAIN scan_frames /\ ~Deleted(s)
Final(s) == StatusOf(s) \in {"completed", "failed"}

\* C30: when the background task of every scan keeps being scheduled, every
\* accepted scan that is not deleted eventually has status completed or failed,
\* whatever status, results, list and delete requests are served for other scans
\* in between.
ScanLiveness == \A s \in ScanIds : Accepted(s) ~> (Deleted(s) \/ Final(s))

\* a scan reached its final status although the other scan was deleted on the way
FinalBesideDeleted ==
    \E s \in ScanIds, t \in ScanIds :
        /\ s # t /\ Accepted(s) /\ ScanOver(s) /\ Final(s)
        /\ Deleted(t) /\ ~ScanOver(t)

====
